---- MODULE Spec2Model ----
(***************************************************************************)
(* A model of the tokentap interception pipeline: the provider catalog     *)
(* (provider_config.py), the generic and the hand-written extractors       *)
(* (generic_parser.py, parser.py, response_parser.py) and the mitmproxy    *)
(* addon hooks (proxy.py).                                                 *)
(*                                                                         *)
(* Python values are modelled as tagged records: None is Null, a JSON      *)
(* object is Obj(f) with f a function from keys to values, a JSON array    *)
(* is Arr(s) with s a sequence, a string is Str(s) with s a sequence of     *)
(* symbols (hosts and paths are bare symbol sequences), so that `in`,      *)
(* endswith, startswith, lower(), join and [:50] are computed on them as   *)
(* the code computes them on characters.  Dict keys and provider names     *)
(* are TLA+ strings; NoneName stands for a provider name of None.          *)
(***************************************************************************)
EXTENDS Integers, Sequences, FiniteSets, TLC

VARIABLES
    catalog,      \* ProviderConfig: capture_mode and providers (the singleton)
    DEBUG_MODE,   \* config.DEBUG_MODE, read once from the environment
    flows,        \* the proxy library's flow objects, by flow id
    flow_data,    \* TokentapAddon._flow_data
    store,        \* the documents of the events collection, in insertion order
    db,           \* MongoEventStore: its index flag, the ids it gave out, the devices
    hook,         \* per flow: which hook of the flow fires next
    reloads,      \* number of catalog reloads so far
    world,        \* the environment: the flows clients send, the catalogs on disk
    probe         \* a single call of a pure function: its inputs and result

vars == <<catalog, DEBUG_MODE, flows, flow_data, store, db, hook, reloads, world, probe>>

-----------------------------------------------------------------------------
(* Python / JSON values *)

Null == [t |-> "null"]
JBool(b) == [t |-> "bool", v |-> b]
Num(n) == [t |-> "num", v |-> n]
Str(s) == [t |-> "str", v |-> s]
Arr(s) == [t |-> "arr", v |-> s]
Obj(f) == [t |-> "obj", v |-> f]
EmptyDict == [k \in {} |-> Null]
\* an exception propagating out of the expression that produced it
Raise == [t |-> "raise"]

IsNull(x) == x.t = "null"
IsObj(x) == x.t = "obj"
IsArr(x) == x.t = "arr"
IsStr(x) == x.t = "str"
IsNum(x) == x.t = "num"
IsRaise(x) == x.t = "raise"

\* Python truthiness of a value
Truthy(x) ==
    CASE x.t = "null" -> FALSE
      [] x.t = "bool" -> x.v
      [] x.t = "num" -> x.v # 0
      [] x.t = "str" -> x.v # <<>>
      [] x.t = "arr" -> Len(x.v) > 0
      [] x.t = "obj" -> DOMAIN x.v # {}
      [] OTHER -> TRUE

\* dict.get(key, default) on the function of an Obj
DictGet(f, key, default) == IF key \in DOMAIN f THEN f[key] ELSE default

-----------------------------------------------------------------------------
(* Strings as sequences of symbols *)

EndsWith(s, suffix) ==
    /\ Len(suffix) <= Len(s)
    /\ SubSeq(s, Len(s) - Len(suffix) + 1, Len(s)) = suffix

\* Python's `needle in haystack` on strings
Contains(haystack, needle) ==
    \E i \in 1..(Len(haystack) - Len(needle) + 1) :
        SubSeq(haystack, i, i + Len(needle) - 1) = needle

MinOf(S) == CHOOSE x \in S : \A y \in S : x <= y

StartsWith(s, prefix) ==
    /\ Len(prefix) <= Len(s)
    /\ SubSeq(s, 1, Len(prefix)) = prefix

\* str.lower() on one symbol: the symbols that have upper-case letters
LowerSym(c) ==
    CASE c = "/Telemetry" -> "/telemetry"
      [] c = "/Metrics" -> "/metrics"
      [] c = "/ClientTelemetry" -> "/clienttelemetry"
      [] c = "Kiro" -> "kiro"
      [] c = "CLI" -> "cli"
      [] c = "IDE" -> "ide"
      [] c = "Claude" -> "claude"
      [] c = "Code" -> "code"
      [] c = "VSCode" -> "vscode"
      [] OTHER -> c

\* str.lower()
Lower(s) == [i \in 1..Len(s) |-> LowerSym(s[i])]

\* sep.join(parts) for a sequence of symbol sequences
RECURSIVE Join(_, _)
Join(sep, parts) ==
    IF Len(parts) = 0 THEN <<>>
    ELSE IF Len(parts) = 1 THEN parts[1]
    ELSE parts[1] \o sep \o Join(sep, Tail(parts))

\* the elements of a sequence that satisfy a test, in order
RECURSIVE SelectIdx(_, _)
SelectIdx(n, keep) ==
    IF n = 0 THEN <<>>
    ELSE IF n \in keep THEN Append(SelectIdx(n - 1, keep), n) ELSE SelectIdx(n - 1, keep)

\* the concatenation of a sequence of sequences
RECURSIVE Flatten(_)
Flatten(ss) == IF Len(ss) = 0 THEN <<>> ELSE Head(ss) \o Flatten(Tail(ss))

AnyRaise(s) == \E i \in 1..Len(s) : IsRaise(s[i])

-----------------------------------------------------------------------------
(* Provider catalog: provider_config.py *)

\* A path expression: the steps after `$`; None is Null.
JPath(steps) == [t |-> "path", v |-> steps]

\* ProviderRequestConfig
ProviderRequestConfig(model_path, messages_path, system_path) ==
    [model_path |-> model_path, messages_path |-> messages_path,
     system_path |-> system_path, stream_param_path |-> JPath(<<"stream">>),
     text_fields |-> <<>>]

\* ProviderResponseJsonConfig
ProviderResponseJsonConfig(input_path, input_alt, output_path, output_alt, cache_creation_path, cache_read_path, model_path) ==
    [input_tokens_path |-> input_path, input_tokens_path_alt |-> input_alt,
     output_tokens_path |-> output_path, output_tokens_path_alt |-> output_alt,
     cache_creation_tokens_path |-> cache_creation_path,
     cache_read_tokens_path |-> cache_read_path,
     model_path |-> model_path,
     stop_reason_path |-> Null, stop_reason_path_alt |-> <<>>]

\* ProviderMetadata: the rates are None when the descriptor omits them
ProviderMetadata(cost_in, cost_out) ==
    [tags |-> <<>>, cost_per_input_token |-> cost_in, cost_per_output_token |-> cost_out]

\* Provider
Provider(name, enabled, domains, capture_full_response, request, json, sse, metadata) ==
    [name |-> name, enabled |-> enabled, domains |-> domains,
     capture_full_response |-> capture_full_response,
     request |-> request, response |-> [json |-> json, sse |-> sse],
     metadata |-> metadata]

\* ProvidersConfig: providers is a dict, kept in insertion order as a sequence
\* of [key, provider] entries with distinct keys.
ProvidersConfig(capture_mode, providers) ==
    [capture_mode |-> capture_mode, providers |-> providers]

ProviderKeys(cat) == {cat.providers[i].key : i \in 1..Len(cat.providers)}
ProviderAt(cat, key) ==
    cat.providers[CHOOSE i \in 1..Len(cat.providers) : cat.providers[i].key = key].provider

\* {**provider.model_dump(), "provider_name": name}
ProviderInfo(provider, key) ==
    [t |-> "info", provider_name |-> key, descriptor |-> provider]

\* the inner test of the scan: provider_domain == domain or domain.endswith(provider_domain)
DomainMatches(provider, domain) ==
    \E d \in 1..Len(provider.domains) :
        provider.domains[d] = domain \/ EndsWith(domain, provider.domains[d])

\* the entries the scan of get_provider_by_domain stops at
ScanHits(cat, domain) ==
    {i \in 1..Len(cat.providers) :
        /\ cat.providers[i].provider.enabled
        /\ cat.providers[i].key # "unknown"
        /\ DomainMatches(cat.providers[i].provider, domain)}

\* a plausible slip: the fallback forgets the capture_mode test
get_provider_by_domain_AlwaysFallback(cat, domain) ==
    IF ScanHits(cat, domain) # {}
    THEN LET i == MinOf(ScanHits(cat, domain))
         IN ProviderInfo(cat.providers[i].provider, cat.providers[i].key)
    ELSE IF "unknown" \in ProviderKeys(cat) /\ ProviderAt(cat, "unknown").enabled
         THEN ProviderInfo(ProviderAt(cat, "unknown"), "unknown")
         ELSE Null

\* a plausible slip: the scan matches on the exact domain only
get_provider_by_domain_ExactOnly(cat, domain) ==
    LET hits == {i \in 1..Len(cat.providers) :
                    /\ cat.providers[i].provider.enabled
                    /\ cat.providers[i].key # "unknown"
                    /\ \E d \in 1..Len(cat.providers[i].provider.domains) :
                          cat.providers[i].provider.domains[d] = domain}
    IN IF hits # {}
       THEN ProviderInfo(cat.providers[MinOf(hits)].provider, cat.providers[MinOf(hits)].key)
       ELSE IF /\ cat.capture_mode = "capture_all"
               /\ "unknown" \in ProviderKeys(cat)
               /\ ProviderAt(cat, "unknown").enabled
            THEN ProviderInfo(ProviderAt(cat, "unknown"), "unknown")
            ELSE Null

\* a plausible slip: provider_name is taken from the descriptor's display
\* name instead of its key in the catalog
get_provider_by_domain_DisplayName(cat, domain) ==
    IF ScanHits(cat, domain) # {}
    THEN LET i == MinOf(ScanHits(cat, domain))
         IN ProviderInfo(cat.providers[i].provider, cat.providers[i].provider.name)
    ELSE IF /\ cat.capture_mode = "capture_all"
            /\ "unknown" \in ProviderKeys(cat)
            /\ ProviderAt(cat, "unknown").enabled
         THEN ProviderInfo(ProviderAt(cat, "unknown"), "unknown")
         ELSE Null

\* ProviderConfig.get_provider_by_domain
get_provider_by_domain(cat, domain) ==
    IF ScanHits(cat, domain) # {}
    THEN LET i == MinOf(ScanHits(cat, domain))
         IN ProviderInfo(cat.providers[i].provider, cat.providers[i].key)
    ELSE IF /\ cat.capture_mode = "capture_all"
            /\ "unknown" \in ProviderKeys(cat)
            /\ ProviderAt(cat, "unknown").enabled
         THEN ProviderInfo(ProviderAt(cat, "unknown"), "unknown")
         ELSE Null

\* a plausible slip: the result starts from an empty dict instead of base.copy()
RECURSIVE deep_merge_NoCopy(_, _)
deep_merge_NoCopy(base, override) ==
    [k \in DOMAIN override |->
        IF k \in DOMAIN base /\ IsObj(base[k]) /\ IsObj(override[k])
        THEN Obj(deep_merge_NoCopy(base[k].v, override[k].v))
        ELSE override[k]]

\* ProviderConfig._deep_merge, on the key -> value functions of two dicts
RECURSIVE deep_merge(_, _)
deep_merge(base, override) ==
    [k \in DOMAIN base \cup DOMAIN override |->
        IF k \in DOMAIN override
        THEN IF k \in DOMAIN base /\ IsObj(base[k]) /\ IsObj(override[k])
             THEN Obj(deep_merge(base[k].v, override[k].v))
             ELSE override[k]
        ELSE base[k]]

-----------------------------------------------------------------------------
(* Path expressions: ProviderConfig.extract_field *)

Unknown == Str(<<"unknown">>)

\* parser.find(data): the values the path matches, in document order.  A
\* field step matches a dict holding the key; the wildcard step [*] matches
\* every element of a list, and a dict, number or string as if it were a
\* one-element list; it matches nothing in a falsy value.
RECURSIVE Find(_, _)
Find(data, steps) ==
    IF Len(steps) = 0 THEN <<data>>
    ELSE IF Head(steps) = "[*]"
         THEN IF ~Truthy(data) THEN <<>>
              ELSE IF IsArr(data)
                   THEN Flatten([i \in 1..Len(data.v) |-> Find(data.v[i], Tail(steps))])
                   ELSE Find(data, Tail(steps))
         ELSE IF IsObj(data) /\ Head(steps) \in DOMAIN data.v
              THEN Find(data.v[Head(steps)], Tail(steps))
              ELSE <<>>

\* matches[0].value of extract_field, the default for "" and None and for no match
FirstMatch(matches, default) ==
    IF Len(matches) > 0
    THEN IF matches[1] = Str(<<>>) \/ IsNull(matches[1]) THEN default ELSE matches[1]
    ELSE default

\* ProviderConfig.extract_field
extract_field(data, jsonpath, default) ==
    IF IsNull(jsonpath) \/ ~Truthy(data) THEN default
    ELSE FirstMatch(Find(data, jsonpath.v), default)

\* `if value is not None: return value`, else what follows
UnlessNone(value, otherwise) == IF ~IsNull(value) THEN value ELSE otherwise

\* the first non-None extraction among the fallback paths, from index i on
RECURSIVE FirstFallback(_, _, _, _)
FirstFallback(data, fallback_paths, i, default) ==
    IF i > Len(fallback_paths) THEN default
    ELSE UnlessNone(extract_field(data, fallback_paths[i], Null),
                    FirstFallback(data, fallback_paths, i + 1, default))

\* ProviderConfig.extract_field_with_fallbacks
extract_field_with_fallbacks(data, primary_path, fallback_paths, default) ==
    UnlessNone(extract_field(data, primary_path, Null),
               FirstFallback(data, fallback_paths, 1, default))

-----------------------------------------------------------------------------
(* Python built-ins the extractors rely on *)

\* len(x): TypeError for a value without a length
PyLen(x) ==
    CASE x.t \in {"arr", "str"} -> Num(Len(x.v))
      [] x.t = "obj" -> Num(Cardinality(DOMAIN x.v))
      [] OTHER -> Raise

\* the keys of a dict, in some fixed order
KeySeq(f) ==
    LET n == Cardinality(DOMAIN f)
    IN IF n = 0 THEN <<>>
       ELSE LET order == CHOOSE o \in [1..n -> DOMAIN f] : \A i, j \in 1..n : i # j => o[i] # o[j]
            IN [i \in 1..n |-> Str(<<order[i]>>)]

\* `for x in value`: the elements iterated, or a one-element <<Raise>> when
\* the value is not iterable
PyIter(x) ==
    CASE x.t = "arr" -> x.v
      [] x.t = "str" -> [i \in 1..Len(x.v) |-> Str(<<x.v[i]>>)]
      [] x.t = "obj" -> KeySeq(x.v)
      [] OTHER -> <<Raise>>

\* str(value), for token counting
PyStr(x) == IF IsStr(x) THEN x.v ELSE <<"<repr>">>

\* sep.join(texts): TypeError when an item is not a string
PyJoin(sep, texts) ==
    IF \E i \in 1..Len(texts) : ~IsStr(texts[i]) THEN Raise
    ELSE Str(Join(sep, [i \in 1..Len(texts) |-> texts[i].v]))

\* parser.count_tokens: the tokenizer is taken to give one token per symbol
count_tokens(text) == IF ~Truthy(text) THEN 0 ELSE Len(text.v)

-----------------------------------------------------------------------------
(* Request extractors: generic_parser.py, parser.py, proxy.py *)

\* the texts one text field contributes: str(item) for the truthy items of a
\* list, str(value) for another truthy value
FieldTexts(value) ==
    IF ~Truthy(value) THEN <<>>
    ELSE IF IsArr(value)
         THEN LET kept == SelectIdx(Len(value.v), {k \in 1..Len(value.v) : Truthy(value.v[k])})
              IN [k \in 1..Len(kept) |-> PyStr(value.v[kept[k]])]
         ELSE <<PyStr(value)>>

\* the text_fields loop of GenericParser.parse_request
TextParts(body, text_fields) ==
    Flatten([i \in 1..Len(text_fields) |-> FieldTexts(extract_field(body, text_fields[i], Null))])

\* `messages if isinstance(messages, list) else [messages]`, [] for a falsy value
MessageList(messages) ==
    IF Truthy(messages)
    THEN (IF IsArr(messages) THEN messages ELSE Arr(<<messages>>))
    ELSE Arr(<<>>)

\* GenericParser.parse_request: the request record, a dict (tagged "dict")
parse_request(cat, provider_name, body) ==
    IF provider_name \notin ProviderKeys(cat)
    THEN [t |-> "dict", provider |-> provider_name, model |-> Unknown, messages |-> Arr(<<>>), total_text |-> Str(<<>>)]
    ELSE LET req == ProviderAt(cat, provider_name).request
         IN [t |-> "dict", provider |-> provider_name,
             model |-> extract_field(body, req.model_path, Unknown),
             messages |-> MessageList(extract_field(body, req.messages_path, Null)),
             total_text |-> Str(Join(<<"\n">>, TextParts(body, req.text_fields))),
             system |-> extract_field(body, req.system_path, Null),
             is_streaming |-> JBool(Truthy(extract_field(body, req.stream_param_path, JBool(FALSE))))]

\* a plausible slip: the gate without its check of the tools
is_parse_quality_acceptable_NoToolsCheck(parsed, original) ==
    IF ~IsObj(original) THEN Raise
    ELSE LET original_messages == DictGet(original.v, "messages", Arr(<<>>))
             parsed_messages == DictGet(parsed, "messages", Arr(<<>>))
         IN IF IsRaise(PyLen(original_messages)) THEN Raise
            ELSE IF PyLen(original_messages).v > 1 /\ IsRaise(PyLen(parsed_messages)) THEN Raise
            ELSE IF PyLen(original_messages).v > 1 /\ PyLen(parsed_messages).v = 1 THEN JBool(FALSE)
            ELSE IF /\ "system" \in DOMAIN original.v
                    /\ Truthy(original.v["system"])
                    /\ ~Truthy(DictGet(parsed, "system", Null))
                 THEN JBool(FALSE)
            ELSE JBool(TRUE)

\* TokentapAddon._is_parse_quality_acceptable: JBool, or Raise when the
\* original body is no dict or its messages have no length
is_parse_quality_acceptable(parsed, original) ==
    IF ~IsObj(original) THEN Raise
    ELSE LET original_messages == DictGet(original.v, "messages", Arr(<<>>))
             parsed_messages == DictGet(parsed, "messages", Arr(<<>>))
         IN IF IsRaise(PyLen(original_messages)) THEN Raise
            ELSE IF PyLen(original_messages).v > 1 /\ IsRaise(PyLen(parsed_messages)) THEN Raise
            ELSE IF PyLen(original_messages).v > 1 /\ PyLen(parsed_messages).v = 1 THEN JBool(FALSE)
            ELSE IF /\ "system" \in DOMAIN original.v
                    /\ Truthy(original.v["system"])
                    /\ ~Truthy(DictGet(parsed, "system", Null))
                 THEN JBool(FALSE)
            ELSE IF /\ "tools" \in DOMAIN original.v
                    /\ Truthy(original.v["tools"])
                    /\ ~Truthy(DictGet(parsed, "tools", Null))
                 THEN JBool(FALSE)
            ELSE JBool(TRUE)

\* parser.extract_text_from_content: a string, whatever a "text" key holds, or Raise
RECURSIVE extract_text_from_content(_)
extract_text_from_content(content) ==
    CASE IsStr(content) -> content
      [] IsArr(content) ->
            LET part(i) ==
                    LET item == content.v[i]
                    IN CASE IsStr(item) -> <<item>>
                         [] IsObj(item) /\ "text" \in DOMAIN item.v -> <<item.v["text"]>>
                         [] IsObj(item) /\ "text" \notin DOMAIN item.v /\ "content" \in DOMAIN item.v ->
                                <<extract_text_from_content(item.v["content"])>>
                         [] OTHER -> <<>>
            IN PyJoin(<<" ">>, Flatten([i \in 1..Len(content.v) |-> part(i)]))
      [] IsObj(content) /\ "text" \in DOMAIN content.v -> content.v["text"]
      [] IsObj(content) /\ "text" \notin DOMAIN content.v /\ "content" \in DOMAIN content.v ->
            extract_text_from_content(content.v["content"])
      [] OTHER -> Str(<<>>)

Message(role, content) == Obj([role |-> role, content |-> content])

\* the content of each message of parse_anthropic_request, Raise for a message that is no dict
AnthropicContents(msgs) ==
    [i \in 1..Len(msgs) |->
        IF IsObj(msgs[i]) THEN extract_text_from_content(DictGet(msgs[i].v, "content", Str(<<>>))) ELSE Raise]

\* the record parse_anthropic_request returns, given the texts it extracted
AnthropicParsed(body, with_system, system_text, msgs, contents) ==
    LET texts == (IF with_system THEN <<system_text>> ELSE <<>>) \o contents
    IN IF IsRaise(system_text) \/ AnyRaise(contents) \/ IsRaise(PyJoin(<<"\n">>, texts)) THEN Raise
       ELSE [t |-> "dict", provider |-> "anthropic",
             messages |-> Arr((IF with_system THEN <<Message(Str(<<"system">>), system_text)>> ELSE <<>>)
                              \o [i \in 1..Len(msgs) |-> Message(DictGet(msgs[i].v, "role", Unknown), contents[i])]),
             model |-> DictGet(body.v, "model", Unknown),
             system |-> system_text,
             total_text |-> PyJoin(<<"\n">>, texts)]

\* parse_anthropic_request once the system prompt and the message list are read
AnthropicFrom(body, system, msgs) ==
    AnthropicParsed(body, Truthy(system),
                    IF Truthy(system) THEN extract_text_from_content(system) ELSE Null,
                    msgs, AnthropicContents(msgs))

\* parser.parse_anthropic_request
parse_anthropic_request(body) ==
    IF ~IsObj(body) THEN Raise
    ELSE AnthropicFrom(body, DictGet(body.v, "system", Null), PyIter(DictGet(body.v, "messages", Arr(<<>>))))

\* the text parts of a typed-part list in _parse_openai_request: p.get("type") == "text"
OpenAITextParts(content) ==
    LET parts == content.v
        kept == SelectIdx(Len(parts), {k \in 1..Len(parts) : IsObj(parts[k]) /\ DictGet(parts[k].v, "type", Null) = Str(<<"text">>)})
    IN IF \E k \in 1..Len(parts) : ~IsObj(parts[k]) THEN <<Raise>>
       ELSE [k \in 1..Len(kept) |-> DictGet(parts[kept[k]].v, "text", Str(<<>>))]

\* the content of each message of _parse_openai_request: None where the
\* content is neither a string nor a list, Raise for a message that is no dict
OpenAIContents(msgs) ==
    [i \in 1..Len(msgs) |->
        IF ~IsObj(msgs[i]) THEN Raise
        ELSE LET content == DictGet(msgs[i].v, "content", Str(<<>>))
             IN IF IsStr(content) THEN content
                ELSE IF IsArr(content) THEN PyJoin(<<" ">>, OpenAITextParts(content))
                ELSE Null]

\* the record _parse_openai_request returns, given the contents it extracted
OpenAIParsed(body, msgs, contents) ==
    LET kept == SelectIdx(Len(msgs), {i \in 1..Len(msgs) : ~IsNull(contents[i])})
    IN IF AnyRaise(contents) THEN Raise
       ELSE [t |-> "dict", provider |-> "openai",
             messages |-> Arr([k \in 1..Len(kept) |-> Message(DictGet(msgs[kept[k]].v, "role", Unknown), contents[kept[k]])]),
             model |-> DictGet(body.v, "model", Unknown),
             total_text |-> PyJoin(<<"\n">>, [k \in 1..Len(kept) |-> contents[kept[k]]])]

\* _parse_openai_request on the message list
OpenAIFrom(body, msgs) == OpenAIParsed(body, msgs, OpenAIContents(msgs))

\* proxy._parse_openai_request
parse_openai_request(body) ==
    IF ~IsObj(body) THEN Raise
    ELSE OpenAIFrom(body, PyIter(DictGet(body.v, "messages", Arr(<<>>))))

\* `"text" in p` for an item p of the parts
HasText(p) ==
    CASE IsObj(p) -> "text" \in DOMAIN p.v
      [] IsStr(p) -> Contains(p.v, <<"text">>)
      [] IsArr(p) -> \E e \in 1..Len(p.v) : p.v[e] = Str(<<"text">>)
      [] OTHER -> FALSE

\* [p.get("text", "") for p in parts if "text" in p] over the items iterated:
\* TypeError for an item that is no container, AttributeError for one that
\* holds "text" and is no dict
PartsText(parts) ==
    LET kept == SelectIdx(Len(parts), {k \in 1..Len(parts) : HasText(parts[k])})
    IN IF \E k \in 1..Len(parts) :
             \/ parts[k].t \in {"raise", "null", "num", "bool"}
             \/ HasText(parts[k]) /\ ~IsObj(parts[k])
       THEN <<Raise>>
       ELSE [k \in 1..Len(kept) |-> parts[kept[k]].v["text"]]

\* the texts of the parts of a content or of the system instruction
GeminiPartsText(parts_value) == PartsText(PyIter(parts_value))

\* the combined text of each content of _parse_gemini_request
GeminiTexts(contents) ==
    [i \in 1..Len(contents) |->
        IF ~IsObj(contents[i]) THEN Raise
        ELSE PyJoin(<<" ">>, GeminiPartsText(DictGet(contents[i].v, "parts", Arr(<<>>))))]

\* the text parts of systemInstruction: none when it is falsy
GeminiSystemParts(system_instruction) ==
    IF ~Truthy(system_instruction) THEN <<>>
    ELSE IF ~IsObj(system_instruction) THEN <<Raise>>
    ELSE GeminiPartsText(DictGet(system_instruction.v, "parts", Arr(<<>>)))

\* the record _parse_gemini_request returns, given the texts it extracted
GeminiParsed(contents, texts, with_system, system_text) ==
    IF AnyRaise(texts) \/ IsRaise(system_text) THEN Raise
    ELSE [t |-> "dict", provider |-> "gemini",
          messages |-> Arr((IF with_system THEN <<Message(Str(<<"system">>), system_text)>> ELSE <<>>)
                           \o [i \in 1..Len(contents) |-> Message(DictGet(contents[i].v, "role", Str(<<"user">>)), texts[i])]),
          model |-> Str(<<"gemini">>),
          total_text |-> PyJoin(<<"\n">>, (IF with_system THEN <<system_text>> ELSE <<>>) \o texts)]

\* _parse_gemini_request on the contents iterated and the system parts
GeminiFrom(contents, system_parts) ==
    GeminiParsed(contents, GeminiTexts(contents), Len(system_parts) > 0, PyJoin(<<" ">>, system_parts))

\* proxy._parse_gemini_request
parse_gemini_request(body) ==
    IF ~IsObj(body) THEN Raise
    ELSE GeminiFrom(PyIter(DictGet(body.v, "contents", Arr(<<>>))),
                    GeminiSystemParts(DictGet(body.v, "systemInstruction", Obj(EmptyDict))))

\* the structured-content branch of _parse_amazon_q_request
AmazonQTextParts(content) ==
    LET parts == content.v
        kept == SelectIdx(Len(parts), {k \in 1..Len(parts) : IsObj(parts[k]) /\ "text" \in DOMAIN parts[k].v})
    IN [k \in 1..Len(kept) |-> parts[kept[k]].v["text"]]

\* the content of each message of _parse_amazon_q_request: None where the
\* content is neither a string nor a list, Raise for a message that is no dict
AmazonQContents(msgs) ==
    [i \in 1..Len(msgs) |->
        IF ~IsObj(msgs[i]) THEN Raise
        ELSE LET content == DictGet(msgs[i].v, "content", Str(<<>>))
             IN IF IsStr(content) THEN content
                ELSE IF IsArr(content) THEN PyJoin(<<" ">>, AmazonQTextParts(content))
                ELSE Null]

\* the record the messages branch of _parse_amazon_q_request returns
AmazonQParsed(body, msgs, contents) ==
    LET kept == SelectIdx(Len(msgs), {i \in 1..Len(msgs) : ~IsNull(contents[i])})
    IN IF AnyRaise(contents) THEN Raise
       ELSE [t |-> "dict", provider |-> "kiro",
             messages |-> Arr([k \in 1..Len(kept) |-> Message(DictGet(msgs[kept[k]].v, "role", Str(<<"user">>)), contents[kept[k]])]),
             model |-> DictGet(body.v, "model", Str(<<"kiro">>)),
             total_text |-> PyJoin(<<"\n">>, [k \in 1..Len(kept) |-> contents[kept[k]]])]

\* the messages branch of _parse_amazon_q_request on the message list
AmazonQFrom(body, msgs) == AmazonQParsed(body, msgs, AmazonQContents(msgs))

\* proxy._parse_amazon_q_request
parse_amazon_q_request(body) ==
    IF ~IsObj(body) THEN Raise
    ELSE IF "messages" \in DOMAIN body.v
    THEN AmazonQFrom(body, PyIter(body.v["messages"]))
    ELSE LET key == IF "prompt" \in DOMAIN body.v THEN "prompt" ELSE "inputText"
             text == DictGet(body.v, key, Null)
         IN IF IsNull(text) /\ key \notin DOMAIN body.v
            THEN [t |-> "dict", provider |-> "kiro", messages |-> Arr(<<>>), model |-> DictGet(body.v, "model", Str(<<"kiro">>)), total_text |-> Str(<<>>)]
            ELSE IF ~IsStr(text) THEN Raise
            ELSE [t |-> "dict", provider |-> "kiro",
                  messages |-> Arr(<<Message(Str(<<"user">>), text)>>),
                  model |-> DictGet(body.v, "model", Str(<<"kiro">>)),
                  total_text |-> text]

\* TokentapAddon._parse_request_body: the hand-written extractor of the
\* provider, None (Null) for a provider that has none
parse_request_body(body_dict, provider) ==
    CASE provider = "anthropic" -> parse_anthropic_request(body_dict)
      [] provider = "openai" -> parse_openai_request(body_dict)
      [] provider = "gemini" -> parse_gemini_request(body_dict)
      [] provider = "kiro" -> parse_amazon_q_request(body_dict)
      [] OTHER -> Null

\* proxy.py 216-239: the request record the response hook works with, Null
\* when there is none, Raise when the fallback extractor raises
RequestParsed(cat, provider_name, body_dict) ==
    IF ~Truthy(body_dict) THEN Null
    ELSE LET generic == parse_request(cat, provider_name, body_dict)
             quality == is_parse_quality_acceptable(generic, body_dict)
         IN IF quality = JBool(TRUE) THEN generic
            ELSE parse_request_body(body_dict, provider_name)

-----------------------------------------------------------------------------
(* Body bytes.  A body is a sequence of symbols: Sym(c) for a piece of plain *)
(* text and J(v) for the serialization of the JSON value v.                  *)

Sym(c) == [t |-> "sym", v |-> c]
J(v) == [t |-> "json", v |-> v]
\* the bytes of a plain string
Text(str) == [i \in 1..Len(str) |-> Sym(str[i])]
NL == Sym("\n")
DataPrefix == Sym("data: ")

Whitespace == {Sym(" "), Sym("\r"), NL}

\* str.strip(chars)
RECURSIVE StripChars(_, _)
StripChars(text, chars) ==
    IF Len(text) = 0 THEN text
    ELSE IF Head(text) \in chars THEN StripChars(Tail(text), chars)
    ELSE IF text[Len(text)] \in chars THEN StripChars(SubSeq(text, 1, Len(text) - 1), chars)
    ELSE text

\* text.split("\n")
RECURSIVE SplitLines(_)
SplitLines(text) ==
    IF \A i \in 1..Len(text) : text[i] # NL THEN <<text>>
    ELSE LET i == MinOf({k \in 1..Len(text) : text[k] = NL})
         IN <<SubSeq(text, 1, i - 1)>> \o SplitLines(SubSeq(text, i + 1, Len(text)))

\* the elements of a serialized top-level array "[", doc, ",", doc, ..., "]"
\* (line breaks between the elements are insignificant), or <<Raise>>
RECURSIVE ArrayItems(_, _)
ArrayItems(inner, expect_doc) ==
    IF Len(inner) = 0 THEN (IF expect_doc THEN <<Raise>> ELSE <<>>)
    ELSE IF Head(inner) \in Whitespace THEN ArrayItems(Tail(inner), expect_doc)
    ELSE IF expect_doc
         THEN IF Head(inner).t = "json" THEN <<Head(inner).v>> \o ArrayItems(Tail(inner), FALSE) ELSE <<Raise>>
         ELSE IF Head(inner) = Sym(",") THEN ArrayItems(Tail(inner), TRUE) ELSE <<Raise>>

\* the list of the elements parsed, or Raise
ArrayOf(items) == IF AnyRaise(items) THEN Raise ELSE Arr(items)

\* what is between the brackets of a serialized array
ArrayBody(inner) == IF Len(inner) = 0 THEN <<>> ELSE ArrayItems(inner, TRUE)

\* a document without blanks around it: one serialized value, or an array of them
Document(body) ==
    IF Len(body) = 1 /\ body[1].t = "json" THEN body[1].v
    ELSE IF Len(body) >= 2 /\ body[1] = Sym("[") /\ body[Len(body)] = Sym("]")
         THEN ArrayOf(ArrayBody(StripChars(SubSeq(body, 2, Len(body) - 1), Whitespace)))
         ELSE Raise

\* json.loads(text): the value, or Raise (JSONDecodeError)
json_loads(text) == Document(StripChars(text, Whitespace))

\* b"".join(chunks).decode("utf-8", errors="replace")
FullText(chunks) == Flatten(chunks)

-----------------------------------------------------------------------------
(* Response extractors: generic_parser.py *)

\* the usage record, a dict (tagged "dict")
Usage(input, output, cache_creation, cache_read, model, stop_reason) ==
    [t |-> "dict", input_tokens |-> input, output_tokens |-> output,
     cache_creation_tokens |-> cache_creation, cache_read_tokens |-> cache_read,
     model |-> model, stop_reason |-> stop_reason]

\* the initial result of both generic response parsers
ZeroResult == Usage(Num(0), Num(0), Num(0), Num(0), Null, Null)

\* GenericParser._default_response, and the zero records of proxy.py and response_parser.py
default_response == Usage(Num(0), Num(0), Num(0), Num(0), Unknown, Null)

\* ProviderResponseSseConfig: the fields given, the rest at their defaults
SseDefaults ==
    [format |-> Null, done_marker |-> Null, use_last_chunk |-> FALSE,
     input_tokens_event |-> Null, input_tokens_path |-> Null, input_tokens_path_alt |-> <<>>,
     output_tokens_event |-> Null, output_tokens_path |-> Null, output_tokens_path_alt |-> <<>>,
     cache_creation_tokens_event |-> Null, cache_creation_tokens_path |-> Null,
     cache_read_tokens_event |-> Null, cache_read_tokens_path |-> Null,
     model_event |-> Null, model_path |-> Null,
     stop_reason_event |-> Null, stop_reason_path |-> Null]

ProviderResponseSseConfig(fields) ==
    [k \in DOMAIN SseDefaults \cup {"t"} |->
        IF k = "t" THEN "sse" ELSE IF k \in DOMAIN fields THEN fields[k] ELSE SseDefaults[k]]

\* GenericParser._parse_json_response
parse_json_response(data, json_config) ==
    Usage(extract_field_with_fallbacks(data, json_config.input_tokens_path, json_config.input_tokens_path_alt, Num(0)),
          extract_field_with_fallbacks(data, json_config.output_tokens_path, json_config.output_tokens_path_alt, Num(0)),
          IF ~IsNull(json_config.cache_creation_tokens_path)
              THEN extract_field(data, json_config.cache_creation_tokens_path, Num(0)) ELSE Num(0),
          IF ~IsNull(json_config.cache_read_tokens_path)
              THEN extract_field(data, json_config.cache_read_tokens_path, Num(0)) ELSE Num(0),
          IF ~IsNull(json_config.model_path) THEN extract_field(data, json_config.model_path, Null) ELSE Null,
          IF ~IsNull(json_config.stop_reason_path)
              THEN extract_field_with_fallbacks(data, json_config.stop_reason_path, json_config.stop_reason_path_alt, Null)
              ELSE Null)

\* GenericParser._should_extract_for_event
should_extract_for_event(event_type, expected_event) ==
    \/ IsNull(expected_event)
    \/ expected_event = Str(<<"*">>)
    \/ event_type = expected_event

\* `if wanted: value = ...; if value is not None: result[key] = value`, with
\* a value already captured kept
Extracted_FirstWins(result, wanted, key, value) ==
    IF wanted /\ ~IsNull(value) /\ ~Truthy(result[key]) THEN [result EXCEPT ![key] = value] ELSE result

\* `if wanted: value = ...; if value is not None: result[key] = value`
Extracted(result, wanted, key, value) ==
    IF wanted /\ ~IsNull(value) THEN [result EXCEPT ![key] = value] ELSE result

\* the extractions of one `data: ` frame whose event type is event_type
SseFields(result, data, event_type, sse_config) ==
    Extracted(
     Extracted(
      Extracted(
       Extracted(
        Extracted(
         Extracted(result,
                   should_extract_for_event(event_type, sse_config.input_tokens_event) /\ ~IsNull(sse_config.input_tokens_path),
                   "input_tokens",
                   extract_field_with_fallbacks(data, sse_config.input_tokens_path, sse_config.input_tokens_path_alt, Null)),
         should_extract_for_event(event_type, sse_config.output_tokens_event) /\ ~IsNull(sse_config.output_tokens_path),
         "output_tokens",
         extract_field_with_fallbacks(data, sse_config.output_tokens_path, sse_config.output_tokens_path_alt, Null)),
        should_extract_for_event(event_type, sse_config.cache_creation_tokens_event),
        "cache_creation_tokens", extract_field(data, sse_config.cache_creation_tokens_path, Null)),
       should_extract_for_event(event_type, sse_config.cache_read_tokens_event),
       "cache_read_tokens", extract_field(data, sse_config.cache_read_tokens_path, Null)),
      should_extract_for_event(event_type, sse_config.model_event),
      "model", extract_field(data, sse_config.model_path, Null)),
     should_extract_for_event(event_type, sse_config.stop_reason_event),
     "stop_reason", extract_field(data, sse_config.stop_reason_path, Null))

\* one decoded `data: ` frame of the SSE loop of _parse_sse_response, applied
\* to result: a frame that is no JSON is skipped, one that is no dict raises
\* (data.get fails)
SseFrame(result, data, sse_config) ==
    IF IsRaise(data) THEN result
    ELSE IF ~IsObj(data) THEN Raise
    ELSE SseFields(result, data, DictGet(data.v, "type", Str(<<>>)), sse_config)

\* one stripped line of the SSE loop, applied to result
SseLine(result, line, sse_config) ==
    IF ~StartsWith(line, <<DataPrefix>>) THEN result
    ELSE IF Truthy(sse_config.done_marker) /\ SubSeq(line, 2, Len(line)) = Text(sse_config.done_marker.v)
         THEN result
    ELSE SseFrame(result, json_loads(SubSeq(line, 2, Len(line))), sse_config)

\* the line loop of _parse_sse_response from line i on: the result, or Raise
RECURSIVE SseLoop(_, _, _, _)
SseLoop(lines, i, result, sse_config) ==
    IF i > Len(lines) \/ IsRaise(result) THEN result
    ELSE SseLoop(lines, i + 1, SseLine(result, StripChars(lines[i], Whitespace), sse_config), sse_config)

\* the last of the lines that is not empty and parses as JSON, Null if none
RECURSIVE LastValid(_, _, _)
LastValid(lines, i, last_valid) ==
    IF i > Len(lines) THEN last_valid
    ELSE LastValid(lines, i + 1,
                   IF Len(lines[i]) > 0 /\ ~IsRaise(json_loads(lines[i])) THEN json_loads(lines[i]) ELSE last_valid)

\* the last line that parses as JSON once stripped of blanks and of chars; Null if none
LastValidLine(full_text, chars) ==
    LastValid([i \in 1..Len(SplitLines(full_text)) |->
                  StripChars(StripChars(SplitLines(full_text)[i], Whitespace), chars)], 1, Null)

\* the extractions of _parse_json_lines from the last valid line
JsonLinesFields(result, last_valid, sse_config) ==
    IF ~Truthy(last_valid) THEN result
    ELSE Extracted(
          Extracted(
           Extracted(result, ~IsNull(sse_config.input_tokens_path), "input_tokens",
                     extract_field_with_fallbacks(last_valid, sse_config.input_tokens_path, sse_config.input_tokens_path_alt, Null)),
           ~IsNull(sse_config.output_tokens_path), "output_tokens",
           extract_field_with_fallbacks(last_valid, sse_config.output_tokens_path, sse_config.output_tokens_path_alt, Null)),
          TRUE, "model", extract_field(last_valid, sse_config.model_path, Null))

\* GenericParser._parse_json_lines
parse_json_lines(full_text, sse_config, result) ==
    JsonLinesFields(result, LastValidLine(full_text, {Sym(","), Sym("["), Sym("]")}), sse_config)

\* the extractions of _parse_last_chunk from the decoded text
LastChunkFields(result, data_list, sse_config) ==
    IF IsRaise(data_list) \/ ~IsArr(data_list) \/ ~Truthy(data_list) THEN result
    ELSE Extracted(
          Extracted(result, TRUE, "input_tokens",
                    extract_field(data_list.v[Len(data_list.v)], sse_config.input_tokens_path, Null)),
          TRUE, "output_tokens",
          extract_field(data_list.v[Len(data_list.v)], sse_config.output_tokens_path, Null))

\* GenericParser._parse_last_chunk
parse_last_chunk(full_text, sse_config, result) ==
    LastChunkFields(result, json_loads(full_text), sse_config)

\* `x > 0`: TypeError for a value that does not compare with a number
GreaterThanZero(x) ==
    CASE x.t = "num" -> JBool(x.v > 0)
      [] x.t = "bool" -> JBool(x.v)
      [] OTHER -> Raise

\* `if result["model"] or result["input_tokens"] > 0`
JsonLinesSucceeded(result, positive) ==
    IF Truthy(result.model) THEN JBool(TRUE) ELSE positive

\* _parse_sse_response once the SSE loop is over
AfterSseLoop(result, full_text, sse_config) ==
    IF IsRaise(result) THEN Raise
    ELSE IF sse_config.use_last_chunk THEN parse_last_chunk(full_text, sse_config, result)
    ELSE result

\* _parse_sse_response once the JSON-lines attempt, if any, gave result
AfterJsonLines(result, attempted, succeeded, full_text, sse_config) ==
    IF attempted /\ IsRaise(succeeded) THEN Raise
    ELSE IF attempted /\ succeeded.v THEN result
    ELSE AfterSseLoop(SseLoop(SplitLines(full_text), 1, result, sse_config), full_text, sse_config)

\* _parse_sse_response on the decoded text, with the result of the JSON-lines attempt
SseResponse(result, full_text, sse_config) ==
    AfterJsonLines(result,
                   sse_config.format \in {Str(<<"json_lines">>), Str(<<"sse_or_json_lines">>)},
                   JsonLinesSucceeded(result, GreaterThanZero(result.input_tokens)),
                   full_text, sse_config)

\* GenericParser._parse_sse_response
parse_sse_response(chunks, sse_config) ==
    SseResponse(IF sse_config.format \in {Str(<<"json_lines">>), Str(<<"sse_or_json_lines">>)}
                THEN parse_json_lines(FullText(chunks), sse_config, ZeroResult)
                ELSE ZeroResult,
                FullText(chunks), sse_config)

\* GenericParser.parse_response, with data the decoded document or the chunk list
parse_response(cat, provider_name, response_data, is_streaming) ==
    IF provider_name \notin ProviderKeys(cat) THEN default_response
    ELSE LET resp_config == ProviderAt(cat, provider_name).response
         IN IF is_streaming /\ ~IsNull(resp_config.sse)
            THEN parse_sse_response(response_data, resp_config.sse)
            ELSE IF is_streaming  \* the chunk list holds no field of a path
                 THEN parse_json_response(Arr(<<>>), resp_config.json)
                 ELSE parse_json_response(response_data, resp_config.json)

-----------------------------------------------------------------------------
(* Hand-written stream extractors: response_parser.py.  The response hook    *)
(* falls back on them when the generic stream extractor raises.              *)

\* value.get(key, default): AttributeError for a value that is no dict
PyGet(x, key, default) == IF IsObj(x) THEN DictGet(x.v, key, default) ELSE Raise

\* value[0].get(key): the first element of a list, then its key
FirstItemGet(x, key) == IF IsArr(x) /\ Len(x.v) > 0 THEN PyGet(x.v[1], key, Null) ELSE Raise

\* the message_start branch of _parse_anthropic_stream
MessageStart(result, message, usage) ==
    IF ~IsObj(message) \/ ~IsObj(usage) THEN Raise
    ELSE [result EXCEPT !.model = DictGet(message.v, "model", result.model),
                        !.input_tokens = DictGet(usage.v, "input_tokens", Num(0)),
                        !.cache_creation_tokens = DictGet(usage.v, "cache_creation_input_tokens", Num(0)),
                        !.cache_read_tokens = DictGet(usage.v, "cache_read_input_tokens", Num(0))]

\* the message_delta branch of _parse_anthropic_stream
MessageDelta(result, usage, delta) ==
    IF ~IsObj(usage) \/ ~IsObj(delta) THEN Raise
    ELSE [result EXCEPT !.output_tokens = DictGet(usage.v, "output_tokens", result.output_tokens),
                        !.stop_reason = DictGet(delta.v, "stop_reason", result.stop_reason)]

\* one frame of _parse_anthropic_stream
AnthropicStreamFrame(result, data) ==
    IF DictGet(data.v, "type", Str(<<>>)) = Str(<<"message_start">>)
    THEN MessageStart(result, DictGet(data.v, "message", Obj(EmptyDict)),
                      PyGet(DictGet(data.v, "message", Obj(EmptyDict)), "usage", Obj(EmptyDict)))
    ELSE IF DictGet(data.v, "type", Str(<<>>)) = Str(<<"message_delta">>)
         THEN MessageDelta(result, DictGet(data.v, "usage", Obj(EmptyDict)), DictGet(data.v, "delta", Obj(EmptyDict)))
         ELSE result

\* `if data.get("model"): result["model"] = data["model"]`
WithModel(result, model) == IF Truthy(model) THEN [result EXCEPT !.model = model] ELSE result

\* `usage = data.get("usage"); if usage: ...` of _parse_openai_stream
WithUsage(result, usage) ==
    IF ~Truthy(usage) THEN result
    ELSE IF ~IsObj(usage) THEN Raise
    ELSE [result EXCEPT !.input_tokens = DictGet(usage.v, "prompt_tokens", result.input_tokens),
                        !.output_tokens = DictGet(usage.v, "completion_tokens", result.output_tokens)]

\* `if choices and choices[0].get("finish_reason"): ...` of _parse_openai_stream
WithFinish(result, choices, finish) ==
    IF IsRaise(result) THEN Raise
    ELSE IF ~Truthy(choices) THEN result
    ELSE IF IsRaise(finish) THEN Raise
    ELSE IF Truthy(finish) THEN [result EXCEPT !.stop_reason = finish]
    ELSE result

\* one frame of _parse_openai_stream
OpenAIStreamFrame(result, data) ==
    WithFinish(WithUsage(WithModel(result, DictGet(data.v, "model", Null)), DictGet(data.v, "usage", Null)),
               DictGet(data.v, "choices", Arr(<<>>)),
               FirstItemGet(DictGet(data.v, "choices", Arr(<<>>)), "finish_reason"))

\* one decoded frame of either loop: a frame that is no JSON is skipped, one
\* that is no dict raises (data.get fails)
LegacyStreamFrame(result, data, provider) ==
    IF IsRaise(data) THEN result
    ELSE IF ~IsObj(data) THEN Raise
    ELSE IF provider = "openai" THEN OpenAIStreamFrame(result, data)
    ELSE AnthropicStreamFrame(result, data)

\* one stripped line of either loop
LegacyStreamLine(result, line, provider) ==
    IF ~StartsWith(line, <<DataPrefix>>) THEN result
    ELSE IF provider = "openai" /\ SubSeq(line, 2, Len(line)) = <<Sym("[DONE]")>> THEN result
    ELSE LegacyStreamFrame(result, json_loads(SubSeq(line, 2, Len(line))), provider)

\* the line loop of _parse_anthropic_stream and of _parse_openai_stream
RECURSIVE LegacyStreamLoop(_, _, _, _)
LegacyStreamLoop(lines, i, result, provider) ==
    IF i > Len(lines) \/ IsRaise(result) THEN result
    ELSE LegacyStreamLoop(lines, i + 1, LegacyStreamLine(result, StripChars(lines[i], Whitespace), provider), provider)

\* _get_gemini_stop_reason
get_gemini_stop_reason(candidates) ==
    IF Truthy(candidates) THEN FirstItemGet(candidates, "finishReason") ELSE Null

\* the record parse_gemini_response returns
GeminiUsage(usage, stop_reason) ==
    IF ~IsObj(usage) \/ IsRaise(stop_reason) THEN Raise
    ELSE Usage(DictGet(usage.v, "promptTokenCount", Num(0)),
               DictGet(usage.v, "candidatesTokenCount", Num(0)),
               Num(0),
               DictGet(usage.v, "cachedContentTokenCount", Num(0)),
               Str(<<"gemini">>), stop_reason)

\* response_parser.parse_gemini_response
parse_gemini_response(data) ==
    IF ~IsObj(data) THEN Raise
    ELSE GeminiUsage(PyGet(data, "usageMetadata", Obj(EmptyDict)),
                     get_gemini_stop_reason(PyGet(data, "candidates", Arr(<<>>))))

\* `if last_valid: return parse_gemini_response(last_valid)`, else the result so far
parse_gemini_response_or(last_valid, result) ==
    IF Truthy(last_valid) THEN parse_gemini_response(last_valid) ELSE result

\* _parse_gemini_stream on the decoded text
GeminiStream(data_list, full_text, result) ==
    IF IsArr(data_list) /\ Truthy(data_list)
    THEN parse_gemini_response(data_list.v[Len(data_list.v)])
    ELSE parse_gemini_response_or(LastValidLine(full_text, {Sym(","), Sym("["), Sym("]")}), result)

\* response_parser._parse_gemini_stream
parse_gemini_stream(chunks, result) ==
    GeminiStream(json_loads(FullText(chunks)), FullText(chunks), result)

\* response_parser.parse_sse_stream; its amazon-q branch needs a provider
\* keyed "amazon-q", which no catalog drawn here holds
parse_sse_stream(provider, chunks) ==
    CASE provider = "anthropic" -> LegacyStreamLoop(SplitLines(FullText(chunks)), 1, default_response, "anthropic")
      [] provider = "openai" -> LegacyStreamLoop(SplitLines(FullText(chunks)), 1, default_response, "openai")
      [] provider = "gemini" -> parse_gemini_stream(chunks, default_response)
      [] OTHER -> default_response

-----------------------------------------------------------------------------
(* Helpers of the addon: proxy.py *)

\* headers.get(name, default) on the headers of a request
Header(request, name, default) == IF name \in DOMAIN request.headers THEN request.headers[name] ELSE default

\* TokentapAddon._detect_client_type
detect_client_type(user_agent, host, provider) ==
    LET ua_lower == Lower(user_agent)
        has(word) == Contains(ua_lower, <<word>>)
    IN IF has("kiro")
       THEN IF has("cli") \/ has("command") THEN Str(<<"kiro-cli">>)
            ELSE IF has("ide") \/ has("editor") \/ has("vscode") THEN Str(<<"kiro-ide">>)
            ELSE Str(<<"kiro-cli">>)
       ELSE IF has("claude") /\ has("code") THEN Str(<<"claude-code">>)
       ELSE IF provider = "kiro" \/ Contains(host, <<"amazonaws", "com">>) THEN Str(<<"kiro-cli">>)
       ELSE IF provider = "anthropic" THEN Str(<<"claude-code">>)
       ELSE Unknown

\* a provider name of None
NoneName == "<None>"

\* TokentapAddon._detect_provider_from_path
detect_provider_from_path(path) ==
    IF Contains(path, <<"/v1/messages">>) THEN "anthropic"
    ELSE IF Contains(path, <<"/v1/chat/completions">>) \/ Contains(path, <<"/v1/responses">>) THEN "openai"
    ELSE IF Contains(path, <<"generateContent">>) \/ Contains(path, <<"streamGenerateContent">>) THEN "gemini"
    ELSE NoneName

\* config.PROVIDERS[provider]["host"]
PROVIDERS ==
    [anthropic |-> <<"api", "anthropic", "com">>,
     openai |-> <<"api", "openai", "com">>,
     gemini |-> <<"generativelanguage", "googleapis", "com">>,
     kiro |-> <<"q", "us-east-1", "amazonaws", "com">>]

\* a header value as a context field: None when the header is absent
HeaderOrNone(request, name) == IF name \in DOMAIN request.headers THEN Str(request.headers[name]) ELSE Null

\* the merge loop of _extract_context_metadata over the keys of the custom context
ContextMerge(context, custom_context) ==
    LET own == {"program_name", "project_name", "session_id", "tags", "custom"}
        extra == DOMAIN custom_context \ own
    IN [k \in own |->
          IF k = "custom" THEN Obj([c \in extra |-> custom_context[c]])
          ELSE IF k \in DOMAIN custom_context /\ IsNull(context[k]) THEN custom_context[k]
          ELSE context[k]]

\* `if not context["program_name"]: context["program_name"] = inferred`
WithProgram(context, inferred) ==
    IF ~Truthy(context.program_name) THEN [context EXCEPT !.program_name = inferred] ELSE context

\* the context once the X-Tokentap-Context header, if any, is decoded
ContextFrom(request, context, with_header, custom_context) ==
    IF with_header /\ ~IsRaise(custom_context) /\ ~IsObj(custom_context) THEN Raise
    ELSE Obj(WithProgram(IF ~with_header \/ IsRaise(custom_context) THEN context
                         ELSE ContextMerge(context, custom_context.v),
                         detect_client_type(Header(request, "user-agent", <<>>), request.host, "")))

\* TokentapAddon._extract_context_metadata: the context dict, or Raise when
\* the X-Tokentap-Context header holds JSON that is no dict
extract_context_metadata(request) ==
    ContextFrom(request,
                [program_name |-> HeaderOrNone(request, "x-tokentap-program"),
                 project_name |-> HeaderOrNone(request, "x-tokentap-project"),
                 session_id |-> HeaderOrNone(request, "x-tokentap-session"),
                 tags |-> Arr(<<>>), custom |-> Obj(EmptyDict)],
                Len(Header(request, "x-tokentap-context", <<>>)) > 0,
                json_loads(Header(request, "x-tokentap-context", <<>>)))

\* ua.os.family of the user_agents library, on the UA strings drawn here
OsFamily(user_agent) ==
    IF Contains(user_agent, <<"Windows">>) THEN Str(<<"Windows">>)
    ELSE IF Contains(user_agent, <<"Mac OS X">>) THEN Str(<<"Mac OS X">>)
    ELSE IF Contains(user_agent, <<"Linux">>) THEN Str(<<"Linux">>)
    ELSE Str(<<"Other">>)

\* user_agent[:50]
UaPrefixLen == 50

\* hashlib.md5(s).hexdigest()[:12], taken to be injective
Md5(str) == <<"md5(">> \o str \o <<")">>

\* a plausible slip: the fingerprint takes the whole user-agent
generate_device_fingerprint_WholeUa(device_info, uuid) ==
    LET components == <<device_info.ip_address, device_info.os_type, Str(device_info.user_agent.v)>>
        kept == SelectIdx(3, {i \in 1..3 : Truthy(components[i])})
        fingerprint_str == PyJoin(<<"|">>, [k \in 1..Len(kept) |-> components[kept[k]]])
    IN IF IsRaise(fingerprint_str) THEN Raise
       ELSE IF ~Truthy(fingerprint_str) THEN Str(<<"unknown-", uuid>>)
       ELSE Str(<<"device-">> \o Md5(fingerprint_str.v))

\* TokentapAddon._generate_device_fingerprint, with uuid the digits that
\* uuid4().hex[:8] yields on this call
generate_device_fingerprint(device_info, uuid) ==
    LET ua == device_info.user_agent.v
        components == <<device_info.ip_address, device_info.os_type,
                        Str(SubSeq(ua, 1, IF Len(ua) < UaPrefixLen THEN Len(ua) ELSE UaPrefixLen))>>
        kept == SelectIdx(3, {i \in 1..3 : Truthy(components[i])})
        fingerprint_str == PyJoin(<<"|">>, [k \in 1..Len(kept) |-> components[kept[k]]])
    IN IF IsRaise(fingerprint_str) THEN Raise
       ELSE IF ~Truthy(fingerprint_str) THEN Str(<<"unknown-", uuid>>)
       ELSE Str(<<"device-">> \o Md5(fingerprint_str.v))

\* `a or b`
PyOr(a, b) == IF Truthy(a) THEN a ELSE b

\* body_dict.get("events", []) of a body that is a non-empty dict, [] otherwise
Events(body_dict) ==
    IF IsObj(body_dict) /\ Truthy(body_dict) THEN DictGet(body_dict.v, "events", Arr(<<>>)) ELSE Arr(<<>>)

\* events[0] for truthy events
FirstEvent(events) ==
    CASE IsArr(events) /\ Truthy(events) -> events.v[1]
      [] IsStr(events) /\ Truthy(events) -> Str(<<events.v[1]>>)
      [] OTHER -> Raise

\* the device dict before its id is chosen
DeviceInfo(flow, with_events, event_data, platform, user_agent) ==
    [t |-> "dict",
     session_id |-> IF with_events THEN PyGet(event_data, "session_id", Null) ELSE Null,
     device_id_from_event |-> IF with_events THEN PyGet(event_data, "device_id", Null) ELSE Null,
     os_type |-> IF Len(user_agent) > 0
                 THEN PyOr(IF with_events THEN platform ELSE Null, OsFamily(user_agent))
                 ELSE (IF with_events THEN platform ELSE Null),
     ip_address |-> flow.client_ip,
     user_agent |-> Str(user_agent)]

\* `session_id or device_id_from_event or fingerprint` with the fingerprint as generated
DeviceId(info, fingerprint) ==
    IF Truthy(info.session_id) THEN info.session_id
    ELSE IF Truthy(info.device_id_from_event) THEN info.device_id_from_event
    ELSE fingerprint

\* the device dict with its id, Raise when the id that is used could not be generated
Identified(info, id) == IF IsRaise(id) THEN Raise ELSE info @@ [id |-> id]

\* the device dict with the id chosen among session, embedded id and fingerprint
DeviceWith(info, uuid) == Identified(info, DeviceId(info, generate_device_fingerprint(info, uuid)))

\* the device dict of a flow given what the first event of the body holds
DeviceFrom(flow, with_events, event_data, platform, uuid) ==
    IF with_events /\ IsRaise(platform) THEN Raise
    ELSE DeviceWith(DeviceInfo(flow, with_events, event_data, platform, Header(flow.request, "user-agent", <<>>)), uuid)

\* the event_data of the first event, then the platform of its env
DeviceOf(flow, with_events, event_data, uuid) ==
    DeviceFrom(flow, with_events, event_data, PyGet(PyGet(event_data, "env", Obj(EmptyDict)), "platform", Null), uuid)

\* TokentapAddon._extract_device_info: the device dict (tagged "dict"), or
\* Raise.  The other attributes the user-agent parse fills in (os_version,
\* browser, is_mobile, is_bot) and hostname, which stays None, are not carried;
\* device_id_from_event is carried as None where the code leaves the key out.
extract_device_info(flow, body_dict, uuid) ==
    DeviceOf(flow, Truthy(Events(body_dict)),
             PyGet(FirstEvent(Events(body_dict)), "event_data", Obj(EmptyDict)), uuid)

Redacted == Str(<<"[REDACTED]">>)

\* the placeholder of one part of a multi-part content, Raise for a part that is no dict
SanitizedPart(part) ==
    IF ~IsObj(part) THEN Raise
    ELSE IF DictGet(part.v, "type", Null) = Str(<<"text">>)
         THEN Obj([type |-> DictGet(part.v, "type", Unknown), text |-> Redacted])
         ELSE Obj([type |-> DictGet(part.v, "type", Unknown)])

\* the sanitized form of one dict message
SanitizedMessage(msg) ==
    LET role == DictGet(msg.v, "role", Unknown)
        content == msg.v["content"]
        parts == [i \in 1..Len(content.v) |-> SanitizedPart(content.v[i])]
    IN IF "content" \notin DOMAIN msg.v THEN Obj([role |-> role])
       ELSE IF IsStr(content) THEN Obj([role |-> role, content |-> IF Truthy(content) THEN Redacted ELSE Str(<<>>)])
       ELSE IF IsArr(content) THEN (IF AnyRaise(parts) THEN Raise ELSE Obj([role |-> role, content |-> Arr(parts)]))
       ELSE Obj([role |-> role, content |-> Redacted])

\* a plausible slip: string contents are copied instead of redacted
sanitize_messages_KeepStrings(messages) ==
    LET dicts == SelectIdx(Len(messages.v), {i \in 1..Len(messages.v) : IsObj(messages.v[i])})
    IN Arr([k \in 1..Len(dicts) |->
               LET msg == messages.v[dicts[k]]
               IN IF "content" \in DOMAIN msg.v /\ IsStr(msg.v["content"])
                  THEN Obj([role |-> DictGet(msg.v, "role", Unknown), content |-> msg.v["content"]])
                  ELSE SanitizedMessage(msg)])

\* TokentapAddon._sanitize_messages: the sanitized list, or Raise
sanitize_messages(messages) ==
    LET dicts == SelectIdx(Len(messages.v), {i \in 1..Len(messages.v) : IsObj(messages.v[i])})
        sanitized == [k \in 1..Len(dicts) |-> SanitizedMessage(messages.v[dicts[k]])]
    IN IF AnyRaise(sanitized) THEN Raise ELSE Arr(sanitized)

\* `"budget_tokens" in value`: TypeError for a value that is no container
InValue(key, x) ==
    CASE IsObj(x) -> JBool(key \in DOMAIN x.v)
      [] IsArr(x) -> JBool(\E i \in 1..Len(x.v) : x.v[i] = Str(<<key>>))
      [] IsStr(x) -> JBool(Contains(x.v, <<key>>))
      [] OTHER -> Raise

\* _has_budget_tokens once `"budget_tokens" in body_dict` and the thinking key are read
BudgetTokens(at_top, thinking) ==
    IF IsRaise(at_top) THEN Raise
    ELSE IF at_top.v THEN JBool(TRUE)
    ELSE IF IsRaise(thinking) THEN Raise
    ELSE JBool(IsObj(thinking) /\ "budget_tokens" \in DOMAIN thinking.v)

\* TokentapAddon._has_budget_tokens: JBool, or Raise for a truthy body that is no dict
has_budget_tokens(body_dict) ==
    IF ~Truthy(body_dict) THEN JBool(FALSE)
    ELSE BudgetTokens(InValue("budget_tokens", body_dict), PyGet(body_dict, "thinking", Obj(EmptyDict)))

\* _is_token_consuming_event given what _has_budget_tokens answered
TokenConsuming(body_dict, provider_name, budget) ==
    IF IsRaise(budget) THEN Raise
    ELSE IF budget.v THEN JBool(TRUE)
    ELSE IF provider_name = "unknown" THEN JBool(FALSE)
    ELSE JBool(\/ Truthy(DictGet(body_dict.v, "messages", Null))
               \/ Truthy(DictGet(body_dict.v, "prompt", Null))
               \/ Truthy(DictGet(body_dict.v, "contents", Null)))

\* TokentapAddon._is_token_consuming_event
is_token_consuming_event(body_dict, provider_name) ==
    IF ~Truthy(body_dict) THEN JBool(FALSE)
    ELSE TokenConsuming(body_dict, provider_name, has_budget_tokens(body_dict))

\* `a + b` on token counts: numbers add, strings and lists concatenate
PyAdd(a, b) ==
    CASE a.t \in {"num", "bool"} /\ b.t \in {"num", "bool"} ->
            Num((IF a.t = "bool" THEN (IF a.v THEN 1 ELSE 0) ELSE a.v)
                + (IF b.t = "bool" THEN (IF b.v THEN 1 ELSE 0) ELSE b.v))
      [] a.t = "str" /\ b.t = "str" -> Str(a.v \o b.v)
      [] a.t = "arr" /\ b.t = "arr" -> Arr(a.v \o b.v)
      [] OTHER -> Raise

\* `tokens * rate` with rate a float or None: only a number times a number is defined
PyMulRate(tokens, rate) ==
    IF tokens.t \in {"num", "bool"} /\ IsNum(rate)
    THEN Num((IF tokens.t = "bool" THEN (IF tokens.v THEN 1 ELSE 0) ELSE tokens.v) * rate.v)
    ELSE Raise

\* proxy.py 332-343: estimated_cost
EstimatedCost(provider_info, usage) ==
    IF IsNull(provider_info) THEN Num(0)
    ELSE LET metadata == provider_info.descriptor.metadata
         IN PyAdd(PyMulRate(usage.input_tokens, metadata.cost_per_input_token),
                  PyMulRate(usage.output_tokens, metadata.cost_per_output_token))

-----------------------------------------------------------------------------
(* The event of a flow: TokentapAddon.response, proxy.py 182-449 *)

\* the value, None when computing it raised
Caught(value) == IF IsRaise(value) THEN Null ELSE value

\* json.loads(content) under `except (JSONDecodeError, ValueError, TypeError)`: None on failure
LoadsOrNone(content) == Caught(json_loads(content))

\* a plausible slip: the path test forgets to lower-case the path
IsTelemetry_CaseSensitive(provider, request) ==
    \/ /\ provider = "kiro"
       /\ \/ Contains(Header(request, "x-amz-target", <<>>), <<"SendTelemetry", "Event">>)
          \/ Contains(Header(request, "x-amz-target", <<>>), <<"SendTelemetry">>)
    \/ \E keyword \in {"/telemetry", "/metrics", "/clienttelemetry"} : Contains(request.path, <<keyword>>)

\* proxy.py 191-200: the flow is dropped as telemetry
IsTelemetry(provider, request) ==
    LET x_amz_target == Header(request, "x-amz-target", <<>>)
        lowered == Lower(request.path)
    IN \/ /\ provider = "kiro"
          /\ Contains(x_amz_target, <<"SendTelemetry", "Event">>) \/ Contains(x_amz_target, <<"SendTelemetry">>)
       \/ \E keyword \in {"/telemetry", "/metrics", "/clienttelemetry"} : Contains(lowered, <<keyword>>)

\* proxy.py 241-318 once the generic extractor has run: the usage record, or Raise
UsageFrom(generic, provider_name, fdata, response_data) ==
    IF fdata.is_streaming
    THEN IF DictGet(fdata, "stream_type", "sse") = "eventstream" /\ provider_name = "kiro"
         THEN Usage(Num(0), Num(0), Num(0), Num(0), Str(<<"kiro">>), Null)
         ELSE IF IsRaise(generic) THEN parse_sse_stream(provider_name, fdata.chunks)
         ELSE generic
    ELSE IF Truthy(response_data)
         \* the generic JSON extractor never raises, so its fallback is never taken
         THEN generic
         ELSE default_response

\* proxy.py 241-318: the usage record of the response, or Raise; response_data
\* is the decoded body of a response that was not streamed, None otherwise
ResponseUsage(cat, provider_name, fdata, response_data) ==
    UsageFrom(parse_response(cat, provider_name,
                             IF fdata.is_streaming THEN fdata.chunks ELSE response_data,
                             fdata.is_streaming),
              provider_name, fdata, response_data)

\* proxy.py 389-398: the request fields copied into the event when present
OptionalFields(request_parsed) ==
    LET copied == {<<"system", "system">>, <<"tools", "tools">>, <<"thinking", "thinking">>, <<"metadata", "request_metadata">>}
        present == {c \in copied : Truthy(request_parsed) /\ c[1] \in DOMAIN request_parsed /\ Truthy(request_parsed[c[1]])}
    IN [k \in {c[2] : c \in present} |-> request_parsed[(CHOOSE c \in present : c[2] = k)[1]]]

\* a plausible slip: the raw payloads are attached outside the debug test
RawFields_Always(cat, debug, provider_name, provider_info, body_dict, response_data) ==
    (IF Truthy(body_dict) THEN [raw_request |-> body_dict] ELSE EmptyDict)
    @@ (IF Truthy(response_data) THEN [raw_response |-> response_data] ELSE EmptyDict)

\* proxy.py 430-444: the raw payloads attached to the stored event
RawFields(cat, debug, provider_name, provider_info, body_dict, response_data) ==
    LET should_capture_response ==
            \/ provider_name = "unknown"
            \/ ~IsNull(provider_info) /\ provider_info.descriptor.capture_full_response
            \/ cat.capture_mode = "capture_all"
    IN IF ~debug THEN EmptyDict
       ELSE (IF Truthy(body_dict) THEN [raw_request |-> body_dict] ELSE EmptyDict)
            @@ (IF should_capture_response /\ Truthy(response_data) THEN [raw_response |-> response_data] ELSE EmptyDict)

\* the messages of the event before they are sanitized
MessagesForEvent(request_parsed) ==
    IF Truthy(request_parsed) THEN DictGet(request_parsed, "messages", Arr(<<>>)) ELSE Arr(<<>>)

\* proxy.py 405-428: the messages as stored, sanitized outside debug mode
StoredMessages(debug, unsanitized) ==
    IF ~debug /\ Truthy(unsanitized) THEN sanitize_messages(unsanitized) ELSE unsanitized

\* proxy.py 320-449: the event dict (tagged "dict") built from what the hook
\* extracted, or Raise when one of the extractions raised.  The clock readings
\* (timestamp, duration_ms) are not carried.
EventRecord(cat, debug, flow, fdata, body_dict, request_parsed, usage, response_data, device_info, messages_for_event, budget, is_token_consuming) ==
    IF IsRaise(request_parsed) \/ IsRaise(usage) THEN Raise
    ELSE LET provider_name == fdata.provider_name
             provider_info == fdata.provider_info
             request == flow.request
             user_agent == Header(request, "user-agent", <<"unknown">>)
             estimated_cost == EstimatedCost(provider_info, usage)
             total_tokens == PyAdd(usage.input_tokens, usage.output_tokens)
         IN IF \/ IsRaise(estimated_cost) \/ IsRaise(device_info)
               \/ IsRaise(messages_for_event) \/ IsRaise(total_tokens)
               \/ IsRaise(is_token_consuming) \/ IsRaise(budget)
            THEN Raise
            ELSE [t |-> "dict", provider |-> provider_name, host |-> request.host,
                  model |-> IF usage.model = Unknown /\ Truthy(request_parsed)
                            THEN DictGet(request_parsed, "model", Unknown) ELSE usage.model,
                  path |-> request.path,
                  user_agent |-> Str(user_agent),
                  client_type |-> detect_client_type(user_agent, request.host, provider_name),
                  input_tokens |-> usage.input_tokens, output_tokens |-> usage.output_tokens,
                  total_tokens |-> total_tokens,
                  cache_creation_tokens |-> usage.cache_creation_tokens,
                  cache_read_tokens |-> usage.cache_read_tokens,
                  estimated_input_tokens |-> IF Truthy(request_parsed)
                                             THEN count_tokens(DictGet(request_parsed, "total_text", Str(<<>>))) ELSE 0,
                  messages |-> messages_for_event,
                  response_status |-> flow.response.status_code,
                  response_stop_reason |-> usage.stop_reason,
                  streaming |-> fdata.is_streaming,
                  context |-> fdata.context_metadata,
                  program |-> fdata.context_metadata.v.program_name,
                  project |-> fdata.context_metadata.v.project_name,
                  provider_tags |-> IF IsNull(provider_info) THEN <<>> ELSE provider_info.descriptor.metadata.tags,
                  estimated_cost |-> estimated_cost,
                  capture_mode |-> IF provider_name = "unknown" THEN "capture_all" ELSE "known",
                  device |-> device_info, device_id |-> device_info.id,
                  is_token_consuming |-> is_token_consuming, has_budget_tokens |-> budget]
                 @@ OptionalFields(request_parsed)
                 @@ RawFields(cat, debug, provider_name, provider_info, body_dict, response_data)

\* the event given the decoded bodies and the request record
EventFrom(cat, debug, flow, fdata, body_dict, request_parsed, response_data, uuid) ==
    EventRecord(cat, debug, flow, fdata, body_dict, request_parsed,
                ResponseUsage(cat, fdata.provider_name, fdata, response_data),
                response_data,
                extract_device_info(flow, body_dict, uuid),
                StoredMessages(debug, MessagesForEvent(request_parsed)),
                has_budget_tokens(body_dict),
                is_token_consuming_event(body_dict, fdata.provider_name))

\* the events handed to insert_event: none more when building the event
\* raised; the entry keeps, next to the event, the flow, the catalogs at both
\* hooks and the messages before they were sanitized
Inserted(events, f, flow, cat, event, request_parsed) ==
    IF IsRaise(event) THEN events
    ELSE Append(events, [flow |-> f, event |-> event,
                         catalog_at_request |-> flow.seen.catalog,
                         catalog_at_response |-> cat,
                         unsanitized |-> MessagesForEvent(request_parsed)])

\* proxy.py 202-449 given the decoded request body and the request record
Recorded(events, f, cat, debug, flow, fdata, body_dict, request_parsed, uuid) ==
    Inserted(events, f, flow, cat,
             EventFrom(cat, debug, flow, fdata, body_dict, request_parsed,
                       IF fdata.is_streaming THEN Null ELSE LoadsOrNone(flow.response.content), uuid),
             request_parsed)

\* proxy.py 202-449 given the decoded request body
RecordedFrom(events, f, cat, debug, flow, fdata, body_dict, uuid) ==
    Recorded(events, f, cat, debug, flow, fdata, body_dict,
             RequestParsed(cat, fdata.provider_name, body_dict), uuid)

\* proxy.py 202-449: the store after the response hook has handled a flow it does not drop
HandleResponse(events, f, cat, debug, flow, fdata, uuid) ==
    RecordedFrom(events, f, cat, debug, flow, fdata, LoadsOrNone(flow.request.content), uuid)

-----------------------------------------------------------------------------
(* Catalogs and hosts the checks draw from *)

HostAnthropic == <<"api", "anthropic", "com">>
HostAnthropicEU == <<"eu", "api", "anthropic", "com">>
HostGateway == <<"anthropic", "com">>
HostOpenAI == <<"api", "openai", "com">>
HostGemini == <<"generativelanguage", "googleapis", "com">>
HostKiro == <<"q", "us-east-1", "amazonaws", "com">>
HostExample == <<"api", "example", "ai">>
HostLocalhost == <<"localhost">>
HostLoopbackIp == <<"127.0.0.1">>

AnthropicRequest == ProviderRequestConfig(JPath(<<"model">>), JPath(<<"messages">>), JPath(<<"system">>))
AnthropicJson == ProviderResponseJsonConfig(JPath(<<"usage", "input_tokens">>), <<>>, JPath(<<"usage", "output_tokens">>), <<>>, JPath(<<"usage", "cache_creation_input_tokens">>), JPath(<<"usage", "cache_read_input_tokens">>), JPath(<<"model">>))

\* descriptors with the scan's inputs (enabled, domains) varied
LookupProvider(name, enabled, domains) ==
    Provider(name, enabled, domains, FALSE, AnthropicRequest, AnthropicJson, Null, ProviderMetadata(Null, Null))

Entry(key, provider) == [key |-> key, provider |-> provider]

\* Catalogs for the lookup: two providers with overlapping domains in either
\* order, each enabled or not, the reserved unknown entry present or not and
\* enabled or not, under both capture modes.
LookupCatalogs ==
    {ProvidersConfig(mode,
        (IF anthropicFirst
         THEN <<Entry("anthropic", LookupProvider("anthropic", e1, <<HostAnthropic>>)),
                Entry("gateway", LookupProvider("gateway", e2, <<HostGateway, HostOpenAI>>))>>
         ELSE <<Entry("gateway", LookupProvider("gateway", e2, <<HostGateway, HostOpenAI>>)),
                Entry("anthropic", LookupProvider("anthropic", e1, <<HostAnthropic>>))>>)
        \o (IF withUnknown
            THEN <<Entry("unknown", LookupProvider("unknown", e3, <<>>))>>
            ELSE <<>>)) :
        mode \in {"known_only", "capture_all"}, anthropicFirst \in BOOLEAN,
        e1 \in BOOLEAN, e2 \in BOOLEAN, e3 \in BOOLEAN, withUnknown \in BOOLEAN}

LookupHosts == {HostAnthropic, HostAnthropicEU, HostGateway, HostOpenAI, HostExample, HostLocalhost}

\* Dicts for the merge: up to two keys, values a leaf or a dict of leaves
MergeKeys == {"a", "b"}
MergeLeaves == {Num(1), Str(<<"x">>)}
DictsOver(values) == UNION {[S -> values] : S \in SUBSET MergeKeys}
MergeDicts1 == DictsOver(MergeLeaves)
MergeDicts2 == DictsOver(MergeLeaves \cup {Obj(d) : d \in MergeDicts1})
MergeOverrides == {d \in MergeDicts2 : DOMAIN d \subseteq {"a"}}

-----------------------------------------------------------------------------
(* The event store (db.py) over the database library.  A store entry is the *)
(* event as it was handed to insert_event, with the _id and the timestamp    *)
(* of the document the database keeps for it.                                *)

\* wall-clock times, fractions of a second and UTC offsets of ISO timestamps
Times == {"08:00:00", "10:00:00", "12:00:00"}
Fractions == {".123456", ".123000"}
Offsets == {"+00:00", "+02:00"}

Datetime(time, fraction, tzinfo) == [t |-> "datetime", time |-> time, fraction |-> fraction, tzinfo |-> tzinfo]
IsDatetime(x) == x.t = "datetime"

\* datetime.fromisoformat(s): time, optional fraction, optional offset
fromisoformat(s) ==
    IF Len(s.v) = 0 \/ Len(s.v) > 3 THEN Raise
    ELSE IF s.v[1] \notin Times THEN Raise
    ELSE IF Len(s.v) = 1 THEN Datetime(s.v[1], "", NoneName)
    ELSE IF Len(s.v) = 2
         THEN IF s.v[2] \in Fractions THEN Datetime(s.v[1], s.v[2], NoneName)
              ELSE IF s.v[2] \in Offsets THEN Datetime(s.v[1], "", s.v[2])
              ELSE Raise
    ELSE IF s.v[2] \in Fractions /\ s.v[3] \in Offsets THEN Datetime(s.v[1], s.v[2], s.v[3])
    ELSE Raise

\* datetime.isoformat(): the fraction only when it is not zero, the offset
\* only when the datetime is aware
isoformat(d) ==
    Str(<<d.time>> \o (IF d.fraction = "" THEN <<>> ELSE <<d.fraction>>)
                   \o (IF d.tzinfo = NoneName THEN <<>> ELSE <<d.tzinfo>>))

\* the UTC wall-clock time of a time at an offset; a naive time is taken as UTC
UtcTime(time, tzinfo) ==
    IF tzinfo = "+02:00" THEN (IF time = "12:00:00" THEN "10:00:00" ELSE "08:00:00") ELSE time

\* a fraction of a second cut to milliseconds
Millis(fraction) == IF fraction = ".123456" THEN ".123000" ELSE fraction

\* a datetime as the database returns it: the UTC instant in milliseconds, naive
bson_datetime(d) == Datetime(UtcTime(d.time, d.tzinfo), Millis(d.fraction), NoneName)

\* the hex strings of the ObjectIds the driver generates, in order
ObjectIdHex ==
    <<"65a1f0c2e4b0a1b2c3d4e5f1", "65a1f0c2e4b0a1b2c3d4e5f2", "65a1f0c2e4b0a1b2c3d4e5f3",
      "65a1f0c2e4b0a1b2c3d4e5f4", "65a1f0c2e4b0a1b2c3d4e5f5", "65a1f0c2e4b0a1b2c3d4e5f6">>

NewObjectId(n) == [t |-> "ObjectId", n |-> n]

\* bson.ObjectId(s): InvalidId unless s is the hex string of an ObjectId
ObjectId(s) ==
    IF IsStr(s) /\ Len(s.v) = 1 /\ (\E n \in DOMAIN ObjectIdHex : ObjectIdHex[n] = s.v[1])
    THEN NewObjectId(CHOOSE n \in DOMAIN ObjectIdHex : ObjectIdHex[n] = s.v[1])
    ELSE Raise

\* str(ObjectId)
ObjectIdStr(oid) == Str(<<ObjectIdHex[oid.n]>>)

\* MongoEventStore.__init__, on a database with no devices
NewStore == [t |-> "store", _indexes_created |-> FALSE, oids |-> 0, devices |-> {}, calls |-> <<>>]

\* db.py 27-44: ensure_indexes, Raise when a create_index call fails
ensure_indexes(dbs, fault) ==
    IF dbs._indexes_created THEN dbs
    ELSE IF fault = "create_index" THEN Raise
    ELSE [dbs EXCEPT !._indexes_created = TRUE]

\* db.py 50-51: the timestamp insert_event leaves in the event
CoercedTimestamp(event) ==
    IF "timestamp" \notin DOMAIN event THEN Null
    ELSE IF IsStr(event.timestamp) THEN fromisoformat(event.timestamp)
    ELSE event.timestamp

\* the timestamp the database keeps
StoredTimestamp(timestamp) ==
    IF IsDatetime(timestamp) THEN bson_datetime(timestamp) ELSE timestamp

\* the store with one more insert_event call on record: calls is the history
\* of the calls, kept for the properties
Called(dbs, entry, fault, persisted) ==
    [dbs EXCEPT !.calls = Append(@, [flow |-> entry.flow, fault |-> fault, persisted |-> persisted])]

\* db.py 46-54 with the first call returning once the indexes exist
insert_event_IndexesFirst(events, dbs, entry, fault) ==
    IF IsRaise(ensure_indexes(dbs, fault)) \/ ~dbs._indexes_created
    THEN [events |-> events,
          db |-> Called(IF IsRaise(ensure_indexes(dbs, fault)) THEN dbs ELSE ensure_indexes(dbs, fault),
                        entry, fault, FALSE)]
    ELSE [events |-> Append(events, [_id |-> NewObjectId(dbs.oids + 1),
                                     timestamp |-> StoredTimestamp(CoercedTimestamp(entry.event))] @@ entry),
          db |-> Called([dbs EXCEPT !.oids = @ + 1], entry, fault, TRUE)]

\* db.py 46-54: insert_event(event) under a fault of the database; whatever
\* is raised inside is caught and logged
insert_event(events, dbs, entry, fault) ==
    IF IsRaise(ensure_indexes(dbs, fault))
    THEN [events |-> events, db |-> Called(dbs, entry, fault, FALSE)]
    ELSE IF IsRaise(CoercedTimestamp(entry.event))
    THEN [events |-> events, db |-> Called(ensure_indexes(dbs, fault), entry, fault, FALSE)]
    ELSE IF fault = "insert_one"
    THEN [events |-> events,
          db |-> Called([ensure_indexes(dbs, fault) EXCEPT !.oids = @ + 1], entry, fault, FALSE)]
    ELSE [events |-> Append(events, [_id |-> NewObjectId(dbs.oids + 1),
                                     timestamp |-> StoredTimestamp(CoercedTimestamp(entry.event))] @@ entry),
          db |-> Called([ensure_indexes(dbs, fault) EXCEPT !.oids = @ + 1], entry, fault, TRUE)]

\* the document the database holds for a store entry
StoredDocument(entry) ==
    IF IsNull(entry.timestamp)
    THEN [_id |-> entry._id] @@ entry.event
    ELSE [_id |-> entry._id, timestamp |-> entry.timestamp] @@ entry.event

\* db.py 85-88: the document as get_event returns it
Returned(doc) ==
    IF "timestamp" \in DOMAIN doc /\ IsDatetime(doc.timestamp)
    THEN [doc EXCEPT !._id = ObjectIdStr(@), !.timestamp = isoformat(@)]
    ELSE [doc EXCEPT !._id = ObjectIdStr(@)]

\* db.py 79-89: get_event(event_id) answering with the first document found
get_event_FirstDocument(events, event_id) ==
    IF IsRaise(ObjectId(event_id)) THEN Null
    ELSE IF events = <<>> THEN Null
    ELSE Returned(StoredDocument(events[1]))

\* the positions of the documents with an _id
FindById(events, oid) == {i \in 1..Len(events) : events[i]._id = oid}

\* db.py 79-89: get_event(event_id), None for an id that does not parse or
\* that no document has
get_event(events, event_id) ==
    IF IsRaise(ObjectId(event_id)) THEN Null
    ELSE IF FindById(events, ObjectId(event_id)) = {} THEN Null
    ELSE Returned(StoredDocument(events[CHOOSE i \in FindById(events, ObjectId(event_id)) : TRUE]))

-----------------------------------------------------------------------------
(* The state before anything has run *)

NoProbe == [fn |-> "none"]

IdleProxy ==
    /\ DEBUG_MODE = FALSE
    /\ flows = <<>>
    /\ flow_data = EmptyDict
    /\ store = <<>>
    /\ db = NewStore
    /\ hook = <<>>
    /\ reloads = 0
    /\ world = [traffic |-> {}, disk |-> {}, faults |-> {}, repeats |-> FALSE]

proxyVars == <<DEBUG_MODE, flows, flow_data, store, db, hook, reloads, world>>

-----------------------------------------------------------------------------
(* The hooks of the addon.  A flow is sent by a client with the upstream's   *)
(* answer to it already determined; flows[f].seen and the fields of a store  *)
(* entry other than event are history kept for the properties.              *)

MaxFlows == 2
MaxReloads == 1

Loopback == {<<"localhost">>, <<"127.0.0.1">>}

\* http.Response.make(status, body, headers)
InlineResponse(status_code, content_type, content) ==
    [status_code |-> status_code, content_type |-> content_type, content |-> content, stream |-> FALSE]

\* the local host variable left as it was before the rewrite
host_NotReread(host, upstream) == host

\* proxy.py 89-90: host = flow.request.host after the rewrite
host_reread(host, upstream) == upstream

\* TokentapAddon.request, for a new flow sent as p
Request(p) ==
    /\ Len(flows) < MaxFlows
    /\ LET f == Len(flows) + 1
           health == p.host \in Loopback /\ p.path = <<"/health">>
           detected == detect_provider_from_path(p.path)
           rewritten == p.host \in Loopback /\ ~health /\ detected # NoneName
           rejected == p.host \in Loopback /\ ~health /\ detected = NoneName
           request == [host |-> IF rewritten THEN PROVIDERS[detected] ELSE p.host,
                       port |-> IF rewritten THEN 443 ELSE p.port,
                       scheme |-> IF rewritten THEN "https" ELSE p.scheme,
                       path |-> p.path, headers |-> p.headers, content |-> p.content]
           host == IF rewritten THEN host_reread(p.host, request.host) ELSE p.host
           provider_info == get_provider_by_domain(catalog, host)
           provider_name == IF IsNull(provider_info) THEN NoneName ELSE provider_info.provider_name
           context_metadata == extract_context_metadata(request)
           response == IF health
                       THEN InlineResponse(200, <<"application/json">>, <<J(Obj([status |-> Str(<<"ok">>), proxy |-> JBool(TRUE)]))>>)
                       ELSE IF rejected THEN InlineResponse(400, <<"text/plain">>, <<Sym("Unknown API path")>>)
                       ELSE Null
       IN /\ flows' = Append(flows, [request |-> request, client_ip |-> p.client_ip, response |-> response,
                                     upstream |-> [status_code |-> p.status_code, content_type |-> p.content_type, chunks |-> p.chunks],
                                     wire |-> <<>>, forwarded |-> <<>>,
                                     seen |-> [sent |-> p, catalog |-> catalog,
                                               provider_name |-> IF health \/ rejected THEN NoneName ELSE provider_name]])
          /\ flow_data' = IF health \/ rejected \/ IsRaise(context_metadata) THEN flow_data
                          ELSE (f :> [chunks |-> <<>>, is_streaming |-> FALSE, provider_name |-> provider_name,
                                      provider_info |-> provider_info, context_metadata |-> context_metadata])
                               @@ flow_data
          /\ hook' = Append(hook, IF health \/ rejected THEN "response" ELSE "responseheaders")
    /\ UNCHANGED <<catalog, DEBUG_MODE, store, db, reloads, world, probe>>

\* TokentapAddon.responseheaders, when the head of the upstream's answer arrives
ResponseHeaders(f) ==
    /\ f \in 1..Len(flows)
    /\ hook[f] = "responseheaders"
    /\ LET flow == flows[f]
           tracked == f \in DOMAIN flow_data /\ flow_data[f].provider_name # NoneName
           content_type == flow.upstream.content_type
           is_sse == Contains(content_type, <<"text/event-stream">>)
           is_eventstream == Contains(content_type, <<"application/vnd.amazon.eventstream">>)
           body == json_loads(flow.request.content)
           is_request_stream == IF IsObj(body) THEN Truthy(DictGet(body.v, "stream", JBool(FALSE))) ELSE FALSE
           tap == tracked /\ (is_sse \/ is_request_stream \/ is_eventstream)
       IN /\ flows' = [flows EXCEPT ![f].response =
                                        [status_code |-> flow.upstream.status_code, content_type |-> content_type,
                                         content |-> IF tap THEN <<>> ELSE Flatten(flow.upstream.chunks),
                                         stream |-> tap],
                                    ![f].wire = IF tap THEN flow.upstream.chunks ELSE <<>>]
          /\ flow_data' = IF tap
                          THEN [flow_data EXCEPT ![f] =
                                   [is_streaming |-> TRUE,
                                    stream_type |-> IF is_eventstream THEN "eventstream" ELSE "sse"] @@ @]
                          ELSE flow_data
          /\ hook' = [hook EXCEPT ![f] = IF tap /\ Len(flow.upstream.chunks) > 0 THEN "stream" ELSE "response"]
    /\ UNCHANGED <<catalog, DEBUG_MODE, store, db, reloads, world, probe>>

\* a tap that records the empty chunks too
stream_chunks_KeepsEmpty(chunks, data) == [chunks |-> Append(chunks, data), returned |-> data]

\* proxy.py 162-165: stream_chunks(data) over the chunks of its own record
stream_chunks(chunks, data) ==
    [chunks |-> IF Len(data) > 0 THEN Append(chunks, data) ELSE chunks, returned |-> data]

\* the tap responseheaders installed for flow f, on the next chunk of the
\* body; what it returns goes on to the client
StreamChunk(f) ==
    /\ f \in 1..Len(flows)
    /\ hook[f] = "stream"
    /\ LET data == Head(flows[f].wire)
       IN /\ flow_data' = [flow_data EXCEPT ![f].chunks = stream_chunks(@, data).chunks]
          /\ flows' = [flows EXCEPT ![f].wire = Tail(@),
                                    ![f].forwarded = Append(@, stream_chunks(flow_data[f].chunks, data).returned)]
          /\ hook' = [hook EXCEPT ![f] = IF Len(flows[f].wire) = 1 THEN "response" ELSE "stream"]
    /\ UNCHANGED <<catalog, DEBUG_MODE, store, db, reloads, world, probe>>

\* what the hex digits of uuid4() may be
Uuids == {"1a2b3c4d", "5e6f7a8b"}

\* proxy.py 170-449: the events the response hook hands to insert_event
HandedBy(fd, f, cat, debug, flow, uuid) ==
    IF \/ f \notin DOMAIN fd
       \/ fd[f].provider_name = NoneName
       \/ IsTelemetry(fd[f].provider_name, flow.request)
    THEN <<>>
    ELSE HandleResponse(<<>>, f, cat, debug, flow, fd[f], uuid)

\* proxy.py 451-454: the store after the hook awaited insert_event on them
AfterResponse(events, dbs, handed, fault) ==
    IF handed = <<>> THEN [events |-> events, db |-> dbs]
    ELSE insert_event(events, dbs, handed[1], fault)

\* self._flow_data.pop(flow.id, None): the table without the record of f
PoppedKeepsRecord(fd, f) == fd

Popped(fd, f) == [g \in DOMAIN fd \ {f} |-> fd[g]]

\* TokentapAddon.response, with MongoEventStore.insert_event receiving the
\* event under the given fault of the database
Response(f, uuid, fault) ==
    /\ f \in 1..Len(flows)
    /\ hook[f] = "response" \/ (world.repeats /\ hook[f] = "done")
    /\ store' = AfterResponse(store, db, HandedBy(flow_data, f, catalog, DEBUG_MODE, flows[f], uuid), fault).events
    /\ db' = AfterResponse(store, db, HandedBy(flow_data, f, catalog, DEBUG_MODE, flows[f], uuid), fault).db
    /\ flow_data' = Popped(flow_data, f)
    /\ hook' = [hook EXCEPT ![f] = IF @ = "response" THEN "done" ELSE "repeated"]
    /\ UNCHANGED <<catalog, DEBUG_MODE, flows, reloads, world, probe>>

\* ProviderConfig.reload, loading one of the catalogs on disk
Reload ==
    /\ reloads < MaxReloads
    /\ \E loaded \in world.disk : catalog' = loaded
    /\ reloads' = reloads + 1
    /\ UNCHANGED <<DEBUG_MODE, flows, flow_data, store, db, hook, world, probe>>

Next ==
    \/ \E p \in world.traffic : Request(p)
    \/ \E f \in 1..MaxFlows : ResponseHeaders(f)
    \/ \E f \in 1..MaxFlows : StreamChunk(f)
    \/ \E f \in 1..MaxFlows, uuid \in Uuids, fault \in world.faults : Response(f, uuid, fault)
    \/ Reload

\* the proxy as started: a catalog is loaded, no flow yet
\* the proxy started on one of the catalogs, with the store's faults and a
\* proxy library that may or may not call the response hook of a flow twice
StartedWith(catalogs, traffic, disk, faults, repeats) ==
    /\ catalog \in catalogs
    /\ DEBUG_MODE \in BOOLEAN
    /\ flows = <<>>
    /\ flow_data = EmptyDict
    /\ store = <<>>
    /\ db = NewStore
    /\ hook = <<>>
    /\ reloads = 0
    /\ world = [traffic |-> traffic, disk |-> disk, faults |-> faults, repeats |-> repeats]
    /\ probe = NoProbe

\* the proxy started with a store that works and one response hook per flow
Started(catalogs, traffic, disk) ==
    StartedWith(catalogs, traffic, disk, {"none"}, FALSE)

-----------------------------------------------------------------------------
(* Descriptors, catalogs and flows the proxy is run on *)

OpenAIRequest == ProviderRequestConfig(JPath(<<"model">>), JPath(<<"messages">>), Null)
OpenAIJson == ProviderResponseJsonConfig(JPath(<<"usage", "prompt_tokens">>), <<JPath(<<"usage", "input_tokens">>)>>, JPath(<<"usage", "completion_tokens">>), <<JPath(<<"usage", "output_tokens">>)>>, Null, Null, JPath(<<"model">>))

AnthropicSse ==
    ProviderResponseSseConfig(
        [input_tokens_event |-> Str(<<"message_start">>), input_tokens_path |-> JPath(<<"message", "usage", "input_tokens">>),
         output_tokens_event |-> Str(<<"message_delta">>), output_tokens_path |-> JPath(<<"usage", "output_tokens">>),
         model_event |-> Str(<<"message_start">>), model_path |-> JPath(<<"message", "model">>),
         stop_reason_event |-> Str(<<"message_delta">>), stop_reason_path |-> JPath(<<"delta", "stop_reason">>)])

OpenAISse ==
    ProviderResponseSseConfig(
        [done_marker |-> Str(<<"[DONE]">>),
         input_tokens_path |-> JPath(<<"usage", "prompt_tokens">>),
         output_tokens_path |-> JPath(<<"usage", "completion_tokens">>),
         model_path |-> JPath(<<"model">>)])

KiroSse ==
    ProviderResponseSseConfig(
        [format |-> Str(<<"sse_or_json_lines">>),
         input_tokens_path |-> JPath(<<"usage", "inputTokens">>),
         output_tokens_path |-> JPath(<<"usage", "outputTokens">>),
         model_path |-> JPath(<<"model">>)])

GeminiSse ==
    ProviderResponseSseConfig(
        [format |-> Str(<<"json_lines">>), use_last_chunk |-> TRUE,
         input_tokens_path |-> JPath(<<"usageMetadata", "promptTokenCount">>),
         output_tokens_path |-> JPath(<<"usageMetadata", "candidatesTokenCount">>)])

GeminiJson == ProviderResponseJsonConfig(JPath(<<"usageMetadata", "promptTokenCount">>), <<>>, JPath(<<"usageMetadata", "candidatesTokenCount">>), <<>>, Null, JPath(<<"usageMetadata", "cachedContentTokenCount">>), JPath(<<"modelVersion">>))

AnthropicProvider == Provider("Anthropic", TRUE, <<HostAnthropic>>, FALSE, AnthropicRequest, AnthropicJson, AnthropicSse, ProviderMetadata(Num(3), Num(15)))
OpenAIProvider == Provider("OpenAI", TRUE, <<HostOpenAI>>, TRUE, OpenAIRequest, OpenAIJson, OpenAISse, ProviderMetadata(Num(1), Num(2)))
KiroProvider == Provider("Kiro", TRUE, <<<<"amazonaws", "com">>>>, FALSE, OpenAIRequest, OpenAIJson, KiroSse, ProviderMetadata(Num(0), Num(0)))
\* a descriptor that leaves the rates out
GeminiProvider == Provider("Gemini", TRUE, <<HostGemini>>, FALSE, ProviderRequestConfig(JPath(<<"model">>), JPath(<<"contents">>), Null), GeminiJson, GeminiSse, ProviderMetadata(Null, Null))
UnknownProvider == Provider("Unknown", TRUE, <<>>, TRUE, OpenAIRequest, OpenAIJson, Null, ProviderMetadata(Num(0), Num(0)))

KnownOnlyCatalog ==
    ProvidersConfig("known_only",
        <<Entry("anthropic", AnthropicProvider), Entry("openai", OpenAIProvider),
          Entry("kiro", KiroProvider), Entry("unknown", UnknownProvider)>>)

CaptureAllCatalog ==
    ProvidersConfig("capture_all",
        <<Entry("anthropic", AnthropicProvider), Entry("openai", OpenAIProvider),
          Entry("kiro", KiroProvider), Entry("gemini", GeminiProvider), Entry("unknown", UnknownProvider)>>)

\* a catalog an override has trimmed: no openai, no unknown entry
TrimmedCatalog ==
    ProvidersConfig("known_only", <<Entry("anthropic", AnthropicProvider), Entry("kiro", KiroProvider)>>)

NoHeaders == [h \in {} |-> <<>>]
ClientIp == Str(<<"10.0.0.7">>)
Json == <<"application/json">>
EventStream == <<"text/event-stream">>

\* a flow as a client sends it, with the answer the upstream gives to it
Flow(host, path, headers, content, client_ip, status_code, content_type, chunks) ==
    [host |-> host, port |-> IF host \in Loopback THEN 8080 ELSE 443,
     scheme |-> IF host \in Loopback THEN "http" ELSE "https",
     path |-> path, headers |-> headers, content |-> content, client_ip |-> client_ip,
     status_code |-> status_code, content_type |-> content_type, chunks |-> chunks]

Chat(model, messages) == <<J(Obj([model |-> Str(<<model>>), messages |-> Arr(messages)]))>>
Hello == <<Message(Str(<<"user">>), Str(<<"hello">>))>>
AnthropicUsage(input, output) ==
    <<J(Obj([model |-> Str(<<"claude-3">>), usage |-> Obj([input_tokens |-> input, output_tokens |-> output])]))>>
OpenAIUsage(input, output) ==
    <<J(Obj([model |-> Str(<<"gpt-4">>), usage |-> Obj([prompt_tokens |-> input, completion_tokens |-> output])]))>>
Frame(doc) == <<DataPrefix, J(doc), NL, NL>>
TelemetryTarget == [h \in {"x-amz-target"} |-> <<"AmazonCodeWhisperer", "SendTelemetry", "Event">>]

\* flows for the delivery properties: plain, health, rejected, unmatched,
\* telemetry by header and by path, rewritten, streamed, and odd bodies
DeliveryTraffic ==
    {Flow(HostAnthropic, <<"/v1/messages">>, NoHeaders, Chat("claude-3", Hello), ClientIp, 200, Json, <<AnthropicUsage(Num(12), Num(5))>>),
     Flow(HostLocalhost, <<"/health">>, NoHeaders, <<>>, ClientIp, 200, Json, <<>>),
     Flow(HostLoopbackIp, <<"/v2/other">>, NoHeaders, Chat("m", Hello), ClientIp, 200, Json, <<>>),
     Flow(HostLocalhost, <<"/v1/chat/completions">>, NoHeaders, Chat("gpt-4", Hello), ClientIp, 200, Json, <<OpenAIUsage(Num(4), Num(2))>>),
     Flow(HostExample, <<"/v1/complete">>, NoHeaders, Chat("m", Hello), ClientIp, 200, Json, <<OpenAIUsage(Num(1), Num(1))>>),
     Flow(HostKiro, <<"/">>, TelemetryTarget, Chat("kiro", Hello), ClientIp, 200, Json, <<OpenAIUsage(Num(1), Num(1))>>),
     Flow(HostAnthropic, <<"/v1/messages">>, TelemetryTarget, Chat("claude-3", Hello), ClientIp, 200, Json, <<AnthropicUsage(Num(7), Num(1))>>),
     Flow(HostOpenAI, <<"/api", "/Metrics">>, NoHeaders, Chat("gpt-4", Hello), ClientIp, 200, Json, <<OpenAIUsage(Num(2), Num(2))>>),
     Flow(HostAnthropic, <<"/v1/messages">>, NoHeaders, <<J(Arr(<<Num(1)>>))>>, ClientIp, 200, Json, <<AnthropicUsage(Num(3), Num(1))>>),
     Flow(HostAnthropic, <<"/v1/messages">>, NoHeaders, Chat("claude-3", Hello), ClientIp, 200, Json, <<AnthropicUsage(Num(-5), Num(3))>>),
     Flow(HostGemini, <<"/v1beta", "generateContent">>, NoHeaders, <<J(Obj([contents |-> Arr(<<Obj([parts |-> Arr(<<Obj([text |-> Str(<<"hello">>)])>>)])>>)]))>>, ClientIp, 200, Json,
          <<<<J(Obj([usageMetadata |-> Obj([promptTokenCount |-> Num(11), candidatesTokenCount |-> Num(4)])]))>>>>),
     Flow(HostAnthropic, <<"/v1/messages">>, NoHeaders, Chat("claude-3", Hello), ClientIp, 200, EventStream,
          <<Frame(Obj([type |-> Str(<<"message_start">>), message |-> Obj([model |-> Str(<<"claude-3">>), usage |-> Obj([input_tokens |-> Num(9)])])])),
            Frame(Obj([type |-> Str(<<"message_delta">>), usage |-> Obj([output_tokens |-> Num(4)]), delta |-> Obj([stop_reason |-> Str(<<"end_turn">>)])]))>>)}

Init == Started({KnownOnlyCatalog, CaptureAllCatalog}, DeliveryTraffic, {KnownOnlyCatalog, CaptureAllCatalog, TrimmedCatalog})

Spec == Init /\ [][Next]_vars

-----------------------------------------------------------------------------
(* Delivery of events *)

FlowIds == 1..Len(flows)
ResponseHookRan(f) == hook[f] \in {"done", "repeated"}
EventsOf(f) == {i \in 1..Len(store) : store[i].flow = f}

\* the flow matched a provider descriptor in the request hook
MatchedFlow(f) == flows[f].seen.provider_name # NoneName
HealthFlow(f) == flows[f].seen.sent.host \in Loopback /\ flows[f].seen.sent.path = <<"/health">>
\* the request header x-amz-target contains SendTelemetry (so also when it contains SendTelemetryEvent)
TelemetryHeader(f) ==
    /\ "x-amz-target" \in DOMAIN flows[f].seen.sent.headers
    /\ \E i \in 1..Len(flows[f].seen.sent.headers["x-amz-target"]) :
          flows[f].seen.sent.headers["x-amz-target"][i] = "SendTelemetry"
\* the path contains /telemetry, /metrics or /clienttelemetry, whatever the case of its letters
TelemetryPath(f) ==
    \E i \in 1..Len(flows[f].seen.sent.path) :
        flows[f].seen.sent.path[i] \in {"/telemetry", "/Telemetry", "/metrics", "/Metrics", "/clienttelemetry", "/ClientTelemetry"}
\* the request body and the response body are both well-formed JSON
WellFormedBodies(f) ==
    /\ ~IsRaise(json_loads(flows[f].seen.sent.content))
    /\ ~IsRaise(json_loads(Flatten(flows[f].seen.sent.chunks)))

\* C1: once the response hook has run for a flow, exactly one event was
\* handed to the store if the flow matched a provider, is no telemetry flow
\* (by header or by path) and no health flow, and has well-formed JSON
\* bodies; none was handed over if the flow matched no provider, is a health
\* flow, or is a telemetry flow (one the filters of the hook are written for:
\* by path, or by header for kiro).
C1_ExactlyOneEventPerMatchedFlow ==
    \A f \in FlowIds :
        ResponseHookRan(f) =>
            /\ (MatchedFlow(f) /\ ~TelemetryHeader(f) /\ ~TelemetryPath(f) /\ ~HealthFlow(f) /\ WellFormedBodies(f))
                  => Cardinality(EventsOf(f)) = 1
            /\ (\/ ~MatchedFlow(f) \/ HealthFlow(f) \/ TelemetryPath(f)
                \/ (TelemetryHeader(f) /\ flows[f].seen.provider_name = "kiro"))
                  => EventsOf(f) = {}

TokenCounters == {"input_tokens", "output_tokens", "cache_creation_tokens", "cache_read_tokens"}

\* C3: every event handed to the store has numeric token counters that are
\* all >= 0, and total_tokens = input_tokens + output_tokens.
C3_TokenCountsConsistent ==
    \A i \in 1..Len(store) :
        /\ \A k \in TokenCounters : IsNum(store[i].event[k]) /\ store[i].event[k].v >= 0
        /\ IsNum(store[i].event.total_tokens)
        /\ store[i].event.total_tokens.v = store[i].event.input_tokens.v + store[i].event.output_tokens.v

\* C4 as stated: the provider of every event is a provider name of the
\* catalog in force when the event is handed to the store, and is "unknown"
\* only if that catalog's capture_mode is capture_all.
C4_ProviderOfCurrentCatalog ==
    \A i \in 1..Len(store) :
        /\ store[i].event.provider \in ProviderKeys(store[i].catalog_at_response)
        /\ store[i].event.provider = "unknown" => store[i].catalog_at_response.capture_mode = "capture_all"

\* C4 amended: the provider of every event is a provider name of the catalog
\* that was in force when the flow's request hook ran, and is "unknown" only
\* if the capture_mode of that catalog is capture_all.
C4_ProviderOfCatalogAtRequest ==
    \A i \in 1..Len(store) :
        /\ store[i].event.provider \in ProviderKeys(store[i].catalog_at_request)
        /\ store[i].event.provider = "unknown" => store[i].catalog_at_request.capture_mode = "capture_all"

C4_Witness ==
    \E i \in 1..Len(store) :
        /\ store[i].catalog_at_request # store[i].catalog_at_response
        /\ store[i].event.provider = "unknown"
        /\ store[i].catalog_at_request.capture_mode = "capture_all"
        /\ store[i].catalog_at_response.capture_mode = "known_only"

-----------------------------------------------------------------------------
(* Redaction of the stored event *)

TextPart(text) == Obj([type |-> Str(<<"text">>), text |-> Str(<<text>>)])
ImagePart == Obj([type |-> Str(<<"image">>), source |-> Str(<<"base64...">>)])
SystemChat(model, system, messages) ==
    <<J(Obj([model |-> Str(<<model>>), system |-> Str(<<system>>), messages |-> Arr(messages)]))>>

\* flows for the redaction properties: string and multi-part contents, a
\* part without type, messages without content or that are no dicts, a body
\* the generic extractor is rejected on (system, with a descriptor that has
\* no system path), a part that is no dict, a streamed answer, an unmatched host
RedactionTraffic ==
    {Flow(HostAnthropic, <<"/v1/messages">>, NoHeaders,
          Chat("claude-3", <<Message(Str(<<"user">>), Str(<<"my", "secret">>)),
                             Message(Str(<<"assistant">>), Arr(<<TextPart("secret"), ImagePart, Obj([text |-> Str(<<"untyped">>)])>>))>>),
          ClientIp, 200, Json, <<AnthropicUsage(Num(12), Num(5))>>),
     Flow(HostAnthropic, <<"/v1/messages">>, NoHeaders,
          Chat("claude-3", <<Obj([role |-> Str(<<"user">>)]), Str(<<"loose">>),
                             Message(Str(<<"user">>), Num(7)), Message(Str(<<"user">>), Str(<<>>)),
                             Obj([content |-> Obj([text |-> Str(<<"secret">>)])])>>),
          ClientIp, 200, Json, <<AnthropicUsage(Num(2), Num(1))>>),
     Flow(HostOpenAI, <<"/v1/chat/completions">>, NoHeaders,
          SystemChat("gpt-4", "be brief", <<Message(Str(<<"user">>), Str(<<"secret">>)),
                                            Message(Str(<<"user">>), Arr(<<TextPart("look"), Obj([type |-> Str(<<"image_url">>)])>>))>>),
          ClientIp, 200, Json, <<OpenAIUsage(Num(4), Num(2))>>),
     Flow(HostAnthropic, <<"/v1/messages">>, NoHeaders,
          Chat("claude-3", <<Message(Str(<<"user">>), Arr(<<Str(<<"bare">>)>>))>>),
          ClientIp, 200, Json, <<AnthropicUsage(Num(1), Num(1))>>),
     Flow(HostOpenAI, <<"/v1/chat/completions">>, NoHeaders,
          <<J(Obj([model |-> Str(<<"gpt-4">>), stream |-> JBool(TRUE), messages |-> Arr(Hello)]))>>,
          ClientIp, 200, EventStream,
          <<Frame(Obj([model |-> Str(<<"gpt-4">>), usage |-> Obj([prompt_tokens |-> Num(3), completion_tokens |-> Num(1)])])),
            <<DataPrefix, Sym("[DONE]"), NL>>>>),
     Flow(HostExample, <<"/v1/complete">>, NoHeaders, Chat("m", Hello), ClientIp, 200, Json, <<OpenAIUsage(Num(1), Num(1))>>)}

InitRedaction == Started({KnownOnlyCatalog, CaptureAllCatalog}, RedactionTraffic, {CaptureAllCatalog})

SpecRedaction == InitRedaction /\ [][Next]_vars

\* a placeholder of a part: an object with the part's type, and at most a text that is the redaction mark
PlaceholderOf(placeholder, part) ==
    /\ IsObj(placeholder)
    /\ "type" \in DOMAIN placeholder.v
    /\ DOMAIN placeholder.v \subseteq {"type", "text"}
    /\ "text" \in DOMAIN placeholder.v => placeholder.v["text"] = Redacted
    /\ (IsObj(part) /\ "type" \in DOMAIN part.v) => placeholder.v["type"] = part.v["type"]

\* a stored message against the request message it was made from
RedactedFrom(stored, original) ==
    /\ IsObj(stored)
    /\ "role" \in DOMAIN stored.v
    /\ DOMAIN stored.v \subseteq {"role", "content"}
    /\ "content" \in DOMAIN stored.v =>
          \/ stored.v["content"] \in {Redacted, Str(<<>>)}
          \/ /\ IsArr(stored.v["content"])
             /\ "content" \in DOMAIN original.v
             /\ IsArr(original.v["content"])
             /\ Len(stored.v["content"].v) = Len(original.v["content"].v)
             /\ \A j \in 1..Len(stored.v["content"].v) :
                   PlaceholderOf(stored.v["content"].v[j], original.v["content"].v[j])

\* C7: with debug off, every message of a stored event is an object with a
\* role whose content, if it has one, is "[REDACTED]" or empty, or, for a
\* request message with a list of parts, a list of placeholders that keep
\* each part's type; the stored messages are the dict messages of the
\* request record, in order, whichever extractor produced that record.
C7_MessagesRedacted ==
    ~DEBUG_MODE =>
        \A i \in 1..Len(store) :
            LET stored == store[i].event.messages.v
                source == store[i].unsanitized.v
                dicts == SelectIdx(Len(source), {k \in 1..Len(source) : IsObj(source[k])})
            IN /\ Len(stored) = Len(dicts)
               /\ \A k \in 1..Len(stored) : RedactedFrom(stored[k], source[dicts[k]])

C7_Witness ==
    /\ ~DEBUG_MODE
    /\ \E i \in 1..Len(store) :
          /\ store[i].event.provider = "anthropic"
          /\ Len(store[i].event.messages.v) = 2
          /\ store[i].unsanitized.v[1].v["content"] = Str(<<"my", "secret">>)
          /\ store[i].event.messages.v[1].v["content"] = Redacted
          /\ store[i].event.messages.v[2].v["content"].v[2] = Obj([type |-> Str(<<"image">>)])
    /\ \E i \in 1..Len(store) :
          /\ store[i].event.provider = "openai"
          /\ "system" \notin DOMAIN store[i].event
          /\ Len(store[i].event.messages.v) = 2
          /\ store[i].unsanitized.v[2].v["content"] = Str(<<"look">>)
          /\ store[i].event.messages.v[2].v["content"] = Redacted

\* C8: an event handed to the store carries raw_request or raw_response only
\* if the debug flag is set.
C8_RawPayloadsOnlyInDebug ==
    \A i \in 1..Len(store) :
        ("raw_request" \in DOMAIN store[i].event \/ "raw_response" \in DOMAIN store[i].event) => DEBUG_MODE

C8_Witness ==
    /\ ~DEBUG_MODE
    /\ \E i \in 1..Len(store) :
          /\ store[i].event.provider = "unknown"
          /\ store[i].catalog_at_response.capture_mode = "capture_all"
          /\ ProviderAt(store[i].catalog_at_response, "unknown").capture_full_response
          /\ "raw_request" \notin DOMAIN store[i].event
          /\ "raw_response" \notin DOMAIN store[i].event
    /\ \E i \in 1..Len(store) :
          /\ store[i].event.provider = "openai"
          /\ ProviderAt(store[i].catalog_at_response, "openai").capture_full_response
          /\ "raw_response" \notin DOMAIN store[i].event

-----------------------------------------------------------------------------
(* Device identity of the stored event *)

\* two user-agents of 51 symbols that differ in the last one only
UaLength == 51
LongUa(last) == [i \in 1..UaLength |-> IF i = 1 THEN "Linux" ELSE IF i = UaLength THEN last ELSE "x"]
UserAgent(ua) == [h \in {"user-agent"} |-> ua]

\* a telemetry-style body: events[0].event_data with the fields given
EventsBody(event_data) ==
    <<J(Obj([model |-> Str(<<"claude-3">>), messages |-> Arr(Hello),
             events |-> Arr(<<Obj([event_data |-> Obj(event_data)])>>)]))>>

\* flows for the device properties: nothing to identify the client by, two
\* user-agents with a common prefix, a session id, an empty session id next
\* to an embedded device id, an embedded device id alone, a platform alone,
\* a streamed answer
DeviceTraffic ==
    {Flow(HostAnthropic, <<"/v1/messages">>, NoHeaders, Chat("claude-3", Hello), Null, 200, Json, <<AnthropicUsage(Num(1), Num(1))>>),
     Flow(HostAnthropic, <<"/v1/messages">>, UserAgent(LongUa("a")), Chat("claude-3", Hello), ClientIp, 200, Json, <<AnthropicUsage(Num(1), Num(1))>>),
     Flow(HostAnthropic, <<"/v1/messages">>, UserAgent(LongUa("b")), Chat("claude-3", Hello), ClientIp, 200, Json, <<AnthropicUsage(Num(1), Num(1))>>),
     Flow(HostAnthropic, <<"/v1/messages">>, UserAgent(LongUa("a")),
          EventsBody([session_id |-> Str(<<"s1">>), device_id |-> Str(<<"d1">>), env |-> Obj([platform |-> Str(<<"darwin">>)])]),
          ClientIp, 200, Json, <<AnthropicUsage(Num(1), Num(1))>>),
     Flow(HostAnthropic, <<"/v1/messages">>, NoHeaders,
          EventsBody([session_id |-> Str(<<>>), device_id |-> Str(<<"d1">>)]),
          ClientIp, 200, Json, <<AnthropicUsage(Num(1), Num(1))>>),
     Flow(HostAnthropic, <<"/v1/messages">>, NoHeaders,
          EventsBody([device_id |-> Str(<<"d1">>)]),
          Null, 200, Json, <<AnthropicUsage(Num(1), Num(1))>>),
     Flow(HostAnthropic, <<"/v1/messages">>, NoHeaders,
          EventsBody([env |-> Obj([platform |-> Str(<<"darwin">>)])]),
          Null, 200, Json, <<AnthropicUsage(Num(1), Num(1))>>),
     Flow(HostAnthropic, <<"/v1/messages">>, NoHeaders, Chat("claude-3", Hello), Null, 200, EventStream,
          <<Frame(Obj([type |-> Str(<<"message_start">>), message |-> Obj([model |-> Str(<<"claude-3">>), usage |-> Obj([input_tokens |-> Num(9)])])]))>>)}

InitDevice == Started({KnownOnlyCatalog}, DeviceTraffic, {KnownOnlyCatalog})

SpecDevice == InitDevice /\ [][Next]_vars

\* what the device id of a stored event is said to depend on: session id,
\* embedded device id, client ip, os family, first 50 symbols of the user-agent
DeviceInputs(i) ==
    LET device == store[i].event.device
        ua == device.user_agent.v
    IN <<device.session_id, device.device_id_from_event, device.ip_address, device.os_type,
         SubSeq(ua, 1, IF Len(ua) < UaPrefixLen THEN Len(ua) ELSE UaPrefixLen)>>

\* the id is a fingerprint of the kind given ("device-" or "unknown-")
FingerprintId(i, kind) ==
    /\ IsStr(store[i].event.device_id)
    /\ Len(store[i].event.device_id.v) > 0
    /\ store[i].event.device_id.v[1] = kind

SomeInput(i) == \E k \in 1..5 : IF k = 5 THEN Len(DeviceInputs(i)[k]) > 0 ELSE Truthy(DeviceInputs(i)[k])

-----------------------------------------------------------------------------
(* get_provider_by_domain, called on every catalog and host *)

InitLookup ==
    /\ IdleProxy
    /\ catalog \in LookupCatalogs
    /\ probe \in {[fn |-> "get_provider_by_domain", domain |-> h, done |-> FALSE, out |-> Null] : h \in LookupHosts}

LookupCall ==
    /\ probe.fn = "get_provider_by_domain"
    /\ ~probe.done
    /\ probe' = [probe EXCEPT !.done = TRUE, !.out = get_provider_by_domain(catalog, probe.domain)]
    /\ UNCHANGED <<catalog, proxyVars>>

SpecLookup == InitLookup /\ [][LookupCall]_vars

LookupDone == probe.fn = "get_provider_by_domain" /\ probe.done

\* entry i is enabled, is not the reserved unknown entry, and one of its
\* domains equals the host or is a suffix of it
ScannedMatch(i, host) ==
    /\ catalog.providers[i].provider.enabled
    /\ catalog.providers[i].key # "unknown"
    /\ \E d \in 1..Len(catalog.providers[i].provider.domains) :
          LET dom == catalog.providers[i].provider.domains[d]
          IN dom = host \/ (Len(dom) <= Len(host) /\ SubSeq(host, Len(host) - Len(dom) + 1, Len(host)) = dom)

\* C5 as stated: every descriptor with a domain that equals the host or is a
\* suffix of it is the one returned.
C5_EveryMatchingDescriptorReturned ==
    LookupDone =>
        \A i \in 1..Len(catalog.providers) :
            (\E d \in 1..Len(catalog.providers[i].provider.domains) :
                EndsWith(probe.domain, catalog.providers[i].provider.domains[d]))
            => probe.out = ProviderInfo(catalog.providers[i].provider, catalog.providers[i].key)

\* C5 amended: an enabled descriptor other than the reserved unknown one, with
\* a domain that equals the host or is a suffix of it, is returned when no
\* earlier such descriptor of the catalog matches the host.
C5_FirstEnabledMatchReturned ==
    LookupDone =>
        \A i \in 1..Len(catalog.providers) :
            (ScannedMatch(i, probe.domain) /\ \A j \in 1..(i - 1) : ~ScannedMatch(j, probe.domain))
            => probe.out = ProviderInfo(catalog.providers[i].provider, catalog.providers[i].key)

C5_Witness ==
    /\ LookupDone
    /\ probe.domain = HostAnthropicEU
    /\ probe.out # Null
    /\ probe.out.provider_name = "anthropic"
    /\ catalog.providers[2].key = "anthropic"

ReturnsUnknown == probe.out # Null /\ probe.out.provider_name = "unknown"

\* C6 as stated: for a host no scanned provider matches, the unknown
\* descriptor is returned exactly when capture_mode is capture_all, and
\* nothing otherwise; it is never returned for a host a scanned provider matches.
C6_UnknownIffCaptureAll ==
    LookupDone =>
        IF \A i \in 1..Len(catalog.providers) : ~ScannedMatch(i, probe.domain)
        THEN /\ ReturnsUnknown <=> catalog.capture_mode = "capture_all"
             /\ ~ReturnsUnknown => probe.out = Null
        ELSE ~ReturnsUnknown

\* C6 amended: the unknown descriptor is returned exactly when capture_mode is
\* capture_all and the catalog holds an enabled unknown entry.
C6_UnknownIffCaptureAllAndEnabled ==
    LookupDone =>
        IF \A i \in 1..Len(catalog.providers) : ~ScannedMatch(i, probe.domain)
        THEN /\ ReturnsUnknown <=>
                    /\ catalog.capture_mode = "capture_all"
                    /\ \E i \in 1..Len(catalog.providers) :
                          catalog.providers[i].key = "unknown" /\ catalog.providers[i].provider.enabled
             /\ ReturnsUnknown => probe.out.descriptor = ProviderAt(catalog, "unknown")
             /\ ~ReturnsUnknown => probe.out = Null
        ELSE ~ReturnsUnknown

C6_Witness ==
    /\ LookupDone
    /\ probe.domain = HostExample
    /\ catalog.capture_mode = "capture_all"
    /\ ReturnsUnknown

-----------------------------------------------------------------------------
(* _deep_merge, called on every base and override *)

InitMerge ==
    /\ IdleProxy
    /\ catalog = Null
    /\ probe \in {[fn |-> "_deep_merge", base |-> b, override |-> o, done |-> FALSE, out |-> EmptyDict] : b \in MergeDicts2, o \in MergeOverrides}

MergeCall ==
    /\ probe.fn = "_deep_merge"
    /\ ~probe.done
    /\ probe' = [probe EXCEPT !.done = TRUE, !.out = deep_merge(probe.base, probe.override)]
    /\ UNCHANGED <<catalog, proxyVars>>

SpecMerge == InitMerge /\ [][MergeCall]_vars

MergeDone == probe.fn = "_deep_merge" /\ probe.done

\* C10: merging an empty override into a base returns the base; so does the
\* recursive merge of an empty override into a nested dict of the base.
C10_MergeEmptyIsIdentity ==
    MergeDone =>
        /\ probe.override = EmptyDict => probe.out = probe.base
        /\ \A k \in DOMAIN probe.override \cap DOMAIN probe.base :
              (IsObj(probe.base[k]) /\ probe.override[k] = Obj(EmptyDict))
              => probe.out[k] = probe.base[k]

C10_Witness ==
    /\ MergeDone
    /\ probe.override = EmptyDict
    /\ "a" \in DOMAIN probe.base
    /\ IsObj(probe.base["a"])
    /\ DOMAIN probe.base["a"].v = {"a", "b"}
    /\ probe.out = probe.base

-----------------------------------------------------------------------------
(* The extractors, called on their own: extract_field, parse_request, the   *)
(* quality gate, the request record of the response hook, parse_response on *)
(* a stream.                                                                *)

Tool(name) == Obj([name |-> Str(<<name>>), description |-> Str(<<"a", "tool">>)])

\* a request body with the given messages next to system parts, tools, a
\* thinking budget and metadata (the body of tests/test_array_extraction.py)
FullBody(messages) ==
    Obj([model |-> Str(<<"claude-sonnet-4">>), messages |-> messages,
         system |-> Arr(<<TextPart("System prompt 1"), TextPart("System prompt 2")>>),
         tools |-> Arr(<<Tool("bash"), Tool("read")>>),
         thinking |-> Obj([type |-> Str(<<"enabled">>), budget_tokens |-> Num(1000)]),
         metadata |-> Obj([user_id |-> Str(<<"test-user">>)])])

\* a request body with nothing but a model and messages
PlainBody(messages) == Obj([model |-> Str(<<"claude-sonnet-4">>), messages |-> messages])

ThreeMessages ==
    Arr(<<Message(Str(<<"user">>), Str(<<"First message">>)),
          Message(Str(<<"assistant">>), Str(<<"Second message">>)),
          Message(Str(<<"user">>), Str(<<"Third message">>))>>)

MessageLists == {ThreeMessages, Arr(SubSeq(ThreeMessages.v, 1, 2)), Arr(Hello), Arr(<<>>)}

ExtractDocs ==
    {FullBody(m) : m \in MessageLists} \cup {PlainBody(m) : m \in MessageLists}
    \cup {PlainBody(Hello[1]), Obj([model |-> Num(4)])}

ExtractPaths ==
    {JPath(<<"messages", "[*]">>), JPath(<<"system", "[*]">>), JPath(<<"tools", "[*]">>),
     JPath(<<"messages">>), JPath(<<"model">>), JPath(<<"thinking", "budget_tokens">>),
     JPath(<<"messages", "[*]", "role">>)}

\* descriptors whose request paths end in the wildcard, and ones that name the field
WildcardRequest == ProviderRequestConfig(JPath(<<"model">>), JPath(<<"messages", "[*]">>), JPath(<<"system", "[*]">>))

GeminiArraySse ==
    ProviderResponseSseConfig(
        [format |-> Str(<<"json_lines">>), use_last_chunk |-> TRUE,
         input_tokens_path |-> JPath(<<"usageMetadata", "promptTokenCount">>),
         output_tokens_path |-> JPath(<<"usageMetadata", "candidatesTokenCount">>),
         cache_read_tokens_path |-> JPath(<<"usageMetadata", "cachedContentTokenCount">>)])

GeminiLastChunkSse ==
    ProviderResponseSseConfig(
        [use_last_chunk |-> TRUE,
         input_tokens_path |-> JPath(<<"usageMetadata", "promptTokenCount">>),
         output_tokens_path |-> JPath(<<"usageMetadata", "candidatesTokenCount">>),
         cache_read_tokens_path |-> JPath(<<"usageMetadata", "cachedContentTokenCount">>)])

ParserCatalog(request, sse) ==
    ProvidersConfig("known_only",
        <<Entry("anthropic", Provider("Anthropic", TRUE, <<HostAnthropic>>, FALSE, request, AnthropicJson, AnthropicSse, ProviderMetadata(Num(3), Num(15)))),
          Entry("openai", OpenAIProvider),
          Entry("gemini", Provider("Gemini", TRUE, <<HostGemini>>, FALSE, ProviderRequestConfig(JPath(<<"model">>), JPath(<<"contents">>), Null), GeminiJson, sse, ProviderMetadata(Num(1), Num(1))))>>)

ParserCatalogs ==
    {ParserCatalog(request, sse) : request \in {WildcardRequest, AnthropicRequest}, sse \in {GeminiArraySse, GeminiLastChunkSse}}

\* request records as the quality gate may be given them (the cases of
\* tests/test_array_extraction.py among them)
QualityParsed ==
    {[t |-> "dict", messages |-> m, system |-> s, tools |-> tl] :
        m \in {ThreeMessages, Arr(Hello), Arr(<<>>)},
        s \in {Str(<<"You are an AI">>), Null, Str(<<>>)},
        tl \in {Arr(<<Tool("bash")>>), Null}}
    \cup {[t |-> "dict", messages |-> m] : m \in {ThreeMessages, Arr(Hello)}}

QualityOriginals ==
    {Obj([messages |-> ThreeMessages, system |-> Str(<<"You are an AI">>), tools |-> Arr(<<Tool("bash")>>)]),
     Obj([messages |-> ThreeMessages, system |-> Str(<<>>), tools |-> Arr(<<>>)]),
     Obj([messages |-> Arr(Hello), system |-> Str(<<"You are an AI">>)]),
     Obj([messages |-> ThreeMessages]),
     Obj([messages |-> Arr(Hello), tools |-> Arr(<<Tool("bash")>>)]),
     Obj([model |-> Str(<<"m">>)]),
     Obj([messages |-> Num(3)])}

GeminiChunk(prompt, candidates, cached) ==
    Obj([usageMetadata |-> Obj([promptTokenCount |-> prompt, candidatesTokenCount |-> candidates, cachedContentTokenCount |-> cached])])
GeminiText == Obj([candidates |-> Arr(<<Obj([content |-> Str(<<"hi">>)])>>)])

\* the serialization of a top-level array, on one line or with one element a line
ArrayOnOneLine(docs) ==
    <<Sym("[")>> \o Flatten([i \in 1..Len(docs) |-> IF i = 1 THEN <<J(docs[i])>> ELSE <<Sym(","), J(docs[i])>>]) \o <<Sym("]")>>
ArrayOverLines(docs) ==
    <<Sym("[")>> \o Flatten([i \in 1..Len(docs) |-> IF i = 1 THEN <<J(docs[i])>> ELSE <<NL, Sym(","), NL, J(docs[i])>>]) \o <<Sym("]")>>

GeminiArrays ==
    {<<GeminiText, GeminiChunk(Num(11), Num(4), Num(1))>>,
     <<GeminiChunk(Num(11), Num(4), Num(1))>>,
     <<GeminiText, GeminiChunk(Num(5), Num(2), Num(0)), GeminiChunk(Num(11), Num(4), Num(1))>>,
     <<GeminiChunk(Num(5), Num(2), Num(3)), GeminiText>>}

\* streams: the array in one chunk or cut in two, on one line or over lines,
\* and streams that are no array
StreamPayloads ==
    {<<ArrayOnOneLine(docs)>> : docs \in GeminiArrays}
    \cup {<<ArrayOverLines(docs)>> : docs \in GeminiArrays}
    \cup {<<SubSeq(ArrayOnOneLine(docs), 1, 2), SubSeq(ArrayOnOneLine(docs), 3, Len(ArrayOnOneLine(docs)))>> : docs \in GeminiArrays}
    \cup {<<<<J(GeminiChunk(Num(11), Num(4), Num(1)))>>>>, <<<<Sym("[")>>>>, <<>>}

ParserProbes ==
    {[fn |-> "extract_field", data |-> d, jsonpath |-> p, done |-> FALSE, out |-> Null] :
        d \in ExtractDocs, p \in ExtractPaths}
    \cup {[fn |-> "parse_request", provider_name |-> "anthropic", body |-> b, done |-> FALSE, out |-> Null] :
            b \in ExtractDocs}
    \cup {[fn |-> "_is_parse_quality_acceptable", parsed |-> p, original |-> o, done |-> FALSE, out |-> Null] :
            p \in QualityParsed, o \in QualityOriginals}
    \cup {[fn |-> "request_parsed", provider_name |-> n, body |-> b, done |-> FALSE, out |-> Null] :
            n \in {"anthropic", "openai", "gemini"}, b \in ExtractDocs}
    \cup {[fn |-> "parse_response", provider_name |-> "gemini", chunks |-> c, done |-> FALSE, out |-> Null] :
            c \in StreamPayloads}

InitParsers ==
    /\ IdleProxy
    /\ catalog \in ParserCatalogs
    /\ probe \in ParserProbes

ExtractCall ==
    /\ probe.fn = "extract_field"
    /\ ~probe.done
    /\ probe' = [probe EXCEPT !.done = TRUE, !.out = extract_field(probe.data, probe.jsonpath, Null)]
    /\ UNCHANGED <<catalog, proxyVars>>

ParseRequestCall ==
    /\ probe.fn = "parse_request"
    /\ ~probe.done
    /\ probe' = [probe EXCEPT !.done = TRUE, !.out = parse_request(catalog, probe.provider_name, probe.body)]
    /\ UNCHANGED <<catalog, proxyVars>>

QualityCall ==
    /\ probe.fn = "_is_parse_quality_acceptable"
    /\ ~probe.done
    /\ probe' = [probe EXCEPT !.done = TRUE, !.out = is_parse_quality_acceptable(probe.parsed, probe.original)]
    /\ UNCHANGED <<catalog, proxyVars>>

RequestParsedCall ==
    /\ probe.fn = "request_parsed"
    /\ ~probe.done
    /\ probe' = [probe EXCEPT !.done = TRUE, !.out = RequestParsed(catalog, probe.provider_name, probe.body)]
    /\ UNCHANGED <<catalog, proxyVars>>

ParseResponseCall ==
    /\ probe.fn = "parse_response"
    /\ ~probe.done
    /\ probe' = [probe EXCEPT !.done = TRUE, !.out = parse_response(catalog, probe.provider_name, probe.chunks, TRUE)]
    /\ UNCHANGED <<catalog, proxyVars>>

NextParsers == ExtractCall \/ ParseRequestCall \/ QualityCall \/ RequestParsedCall \/ ParseResponseCall

SpecParsers == InitParsers /\ [][NextParsers]_vars

\* the value a chain of field names leads to in a document, Raise if a field is missing
RECURSIVE ValueAt(_, _)
ValueAt(data, fields) ==
    IF Len(fields) = 0 THEN data
    ELSE IF IsObj(data) /\ Head(fields) \in DOMAIN data.v THEN ValueAt(data.v[Head(fields)], Tail(fields))
    ELSE Raise

ExtractDone == probe.fn = "extract_field" /\ probe.done
\* the path of the call with its last step left out
PathPrefix == SubSeq(probe.jsonpath.v, 1, Len(probe.jsonpath.v) - 1)
\* the path of the call is field names followed by one wildcard
WildcardAtEnd ==
    /\ probe.jsonpath.v[Len(probe.jsonpath.v)] = "[*]"
    /\ \A i \in 1..Len(PathPrefix) : PathPrefix[i] # "[*]"

\* C12: extract_field on a path ending in [*] that matches an array of
\* n >= 1 elements returns the list of all n elements in order; on a path of
\* field names that leads to a single number or non-empty string it returns
\* that scalar, not a list.
C12_WildcardReturnsWholeArray ==
    ExtractDone =>
        /\ (/\ WildcardAtEnd
            /\ IsArr(ValueAt(probe.data, PathPrefix))
            /\ Len(ValueAt(probe.data, PathPrefix).v) >= 1)
              => probe.out = ValueAt(probe.data, PathPrefix)
        /\ (/\ \A i \in 1..Len(probe.jsonpath.v) : probe.jsonpath.v[i] # "[*]"
            /\ (IsNum(ValueAt(probe.data, probe.jsonpath.v)) \/ IsStr(ValueAt(probe.data, probe.jsonpath.v)))
            /\ Truthy(ValueAt(probe.data, probe.jsonpath.v)))
              => probe.out = ValueAt(probe.data, probe.jsonpath.v)

ParseRequestDone == probe.fn = "parse_request" /\ probe.done
CarriedFields == {"system", "tools", "thinking", "metadata"}

\* C13: parse_request on a body with a list of n messages returns a record
\* whose messages are those n messages in order and which has the keys
\* system, tools, thinking and metadata, each holding the body's field.
C13_ParseRequestKeepsAllFields ==
    (ParseRequestDone /\ IsArr(ValueAt(probe.body, <<"messages">>))) =>
        /\ probe.out.messages = probe.body.v["messages"]
        /\ CarriedFields \subseteq DOMAIN probe.out
        /\ \A k \in CarriedFields \cap DOMAIN probe.body.v : probe.out[k] = probe.body.v[k]

QualityDone == probe.fn = "_is_parse_quality_acceptable" /\ probe.done
RequestParsedDone == probe.fn = "request_parsed" /\ probe.done

\* the number of messages a body or a request record holds, 0 without a list of them
MessageCount(messages) == IF IsArr(messages) THEN Len(messages.v) ELSE 0
\* the field of a body is there and not empty
NonEmptyField(original, k) == IsObj(original) /\ k \in DOMAIN original.v /\ Truthy(original.v[k])
\* the field of a request record is missing or empty
EmptyField(parsed, k) == k \notin DOMAIN parsed \/ ~Truthy(parsed[k])

\* the three conditions on which a generic parse is to be rejected
LossDetected(parsed, original) ==
    \/ /\ MessageCount(ValueAt(original, <<"messages">>)) > 1
       /\ "messages" \in DOMAIN parsed
       /\ MessageCount(parsed.messages) = 1
    \/ NonEmptyField(original, "system") /\ EmptyField(parsed, "system")
    \/ NonEmptyField(original, "tools") /\ EmptyField(parsed, "tools")

ParseResponseDone == probe.fn = "parse_response" /\ probe.done
\* the whole payload of the stream parses as a non-empty JSON array
PayloadIsArray == IsArr(json_loads(FullText(probe.chunks))) /\ Len(json_loads(FullText(probe.chunks)).v) > 0
LastElement == json_loads(FullText(probe.chunks)).v[Len(json_loads(FullText(probe.chunks)).v)]
\* the usage record holds, under key, what the path leads to in the last element, if it leads anywhere
FromLastElement(key, path) ==
    (~IsNull(path) /\ ~IsRaise(ValueAt(LastElement, path.v))) => probe.out[key] = ValueAt(LastElement, path.v)

\* C17: for a stream whose whole payload is a top-level JSON array, under a
\* descriptor with use_last_chunk, input_tokens, output_tokens and
\* cache_read_tokens of the usage record are the values at the configured
\* paths in the last element of the array.
C17_LastArrayElementDrivesUsage ==
    (/\ ParseResponseDone
     /\ PayloadIsArray
     /\ ProviderAt(catalog, probe.provider_name).response.sse.use_last_chunk) =>
        /\ FromLastElement("input_tokens", ProviderAt(catalog, probe.provider_name).response.sse.input_tokens_path)
        /\ FromLastElement("output_tokens", ProviderAt(catalog, probe.provider_name).response.sse.output_tokens_path)
        /\ FromLastElement("cache_read_tokens", ProviderAt(catalog, probe.provider_name).response.sse.cache_read_tokens_path)

-----------------------------------------------------------------------------
(* The flow record of the request hook *)

\* C19: the request hook creates a flow record only for a request whose lookup
\* returned a descriptor (the fallback descriptor under capture_all included):
\* every flow that holds a record was matched.
C19_RecordOnlyWhenDescriptorFound ==
    \A f \in DOMAIN flow_data : MatchedFlow(f)

-----------------------------------------------------------------------------
(* The response hook over a database that can fail, on flows with broken     *)
(* bodies, with a proxy library that may call the hook of a flow twice       *)

Broken == <<Sym("{"), Sym("oops")>>

\* flows with a broken request body or a broken response body next to
\* well-formed ones, for priced and unpriced descriptors, a telemetry flow
\* and a streamed one
FaultTraffic ==
    {Flow(HostAnthropic, <<"/v1/messages">>, NoHeaders, Chat("claude-3", Hello), ClientIp, 200, Json, <<AnthropicUsage(Num(12), Num(5))>>),
     Flow(HostAnthropic, <<"/v1/messages">>, NoHeaders, Broken, ClientIp, 200, Json, <<AnthropicUsage(Num(7), Num(1))>>),
     Flow(HostAnthropic, <<"/v1/messages">>, NoHeaders, Chat("claude-3", Hello), ClientIp, 502, <<"text/html">>, <<Broken>>),
     Flow(HostGemini, <<"/v1beta", "generateContent">>, NoHeaders, <<J(Obj([contents |-> Arr(<<Obj([parts |-> Arr(<<Obj([text |-> Str(<<"hello">>)])>>)])>>)]))>>, ClientIp, 200, Json, <<Broken>>),
     Flow(HostKiro, <<"/">>, TelemetryTarget, Chat("kiro", Hello), ClientIp, 200, Json, <<OpenAIUsage(Num(1), Num(1))>>),
     Flow(HostAnthropic, <<"/v1/messages">>, NoHeaders, Chat("claude-3", Hello), ClientIp, 200, EventStream,
          <<Frame(Obj([type |-> Str(<<"message_start">>), message |-> Obj([model |-> Str(<<"claude-3">>), usage |-> Obj([input_tokens |-> Num(9)])])]))>>)}

StoreFaults == {"none", "create_index", "insert_one"}

InitFaults ==
    /\ StartedWith({CaptureAllCatalog}, FaultTraffic, {CaptureAllCatalog}, StoreFaults, TRUE)
    /\ DEBUG_MODE = FALSE

SpecFaults == InitFaults /\ [][Next]_vars

\* the insert_event calls the response hook made for a flow
CallsOf(f) == {i \in 1..Len(db.calls) : db.calls[i].flow = f}

\* C20: once the response hook has run for a flow, the flow table holds no
\* record of it, whether the flow was dropped, its event persisted, or the
\* hook failed while building the event; when the hook is called a second
\* time for the flow, that call hands nothing to the store, so the flow has
\* at most one insert_event call and at most one event.
C20_RecordGoneAfterResponse ==
    \A f \in FlowIds :
        ResponseHookRan(f) =>
            /\ f \notin DOMAIN flow_data
            /\ Cardinality(CallsOf(f)) <= 1
            /\ Cardinality(EventsOf(f)) <= 1

\* the response hook ran twice for a flow whose event the first run persisted,
\* next to a flow that was dropped or failed and has no event
C20_Witness ==
    \E f \in FlowIds, g \in FlowIds :
        /\ hook[f] = "repeated" /\ Cardinality(EventsOf(f)) = 1 /\ f \notin DOMAIN flow_data
        /\ ResponseHookRan(g) /\ CallsOf(g) = {} /\ g \notin DOMAIN flow_data

\* the body of the upstream's answer was tapped as a stream (of a flow that
\* has its response)
StreamedFlow(f) == flows[f].response.stream

ZeroUsage(event) ==
    /\ event.input_tokens = Num(0)
    /\ event.output_tokens = Num(0)
    /\ event.cache_creation_tokens = Num(0)
    /\ event.cache_read_tokens = Num(0)

\* C18: for a matched flow that is no telemetry and no health flow, whose
\* answer was not streamed and whose request body or response body is not
\* valid JSON, the response hook hands exactly one event to the store, and
\* the event's input_tokens, output_tokens and both cache counters are 0.
C18_MalformedBodyStillRecordedWithZeroUsage ==
    \A f \in FlowIds :
        (/\ ResponseHookRan(f) /\ MatchedFlow(f)
         /\ ~TelemetryHeader(f) /\ ~TelemetryPath(f) /\ ~HealthFlow(f)
         /\ ~StreamedFlow(f) /\ ~WellFormedBodies(f)) =>
            /\ Cardinality(CallsOf(f)) = 1
            /\ \A i \in EventsOf(f) : ZeroUsage(store[i].event)

\* the response hook builds an event for the flow: matched to a descriptor
\* with both rates, no telemetry, no health check, a JSON object as request
\* body and a JSON response body
EventDue(f) ==
    /\ MatchedFlow(f) /\ ~TelemetryHeader(f) /\ ~TelemetryPath(f) /\ ~HealthFlow(f)
    /\ WellFormedBodies(f)
    /\ IsObj(json_loads(flows[f].seen.sent.content))
    /\ ~IsNull(ProviderAt(flows[f].seen.catalog, flows[f].seen.provider_name).metadata.cost_per_input_token)
    /\ ~IsNull(ProviderAt(flows[f].seen.catalog, flows[f].seen.provider_name).metadata.cost_per_output_token)

\* C15: a failure inside insert_event (index creation or the insert itself)
\* stays inside it: the response hook completes and removes the flow record
\* all the same, and whatever inserts failed before, a flow the hook builds
\* an event for has that event handed to insert_event, and the event is in
\* the store whenever the database did not fail during that call.
C15_FailedInsertIsIsolated ==
    \A f \in FlowIds :
        (ResponseHookRan(f) /\ EventDue(f)) =>
            /\ f \notin DOMAIN flow_data
            /\ Cardinality(CallsOf(f)) = 1
            /\ \A i \in CallsOf(f) : db.calls[i].fault = "none" => Cardinality(EventsOf(f)) = 1

\* the insert of one flow failed, on index creation or on the insert, and
\* the event of a later flow is in the store
C15_Witness ==
    /\ Len(db.calls) = 2
    /\ ~db.calls[1].persisted /\ db.calls[1].fault \in {"create_index", "insert_one"}
    /\ db.calls[2].fault = "none" /\ db.calls[2].persisted
    /\ db.calls[1].flow # db.calls[2].flow
    /\ EventDue(db.calls[2].flow) /\ EventsOf(db.calls[2].flow) # {}

-----------------------------------------------------------------------------
(* The store and the dashboard API (web/app.py) called on their own *)

MaxInserts == 2

\* config.py 61-75: the admin token file as get_or_create_admin_token writes
\* it, the token and a newline
TokenFile(token) == Str(<<token, "\n">>)
GeneratedToken == "kq3ZVx0c9PzYl1nR"

\* Path.read_text().strip() of a token file
StoredToken(file) == Str(SelectSeq(file.v, LAMBDA c : c # "\n"))

\* config.py 61-75: get_or_create_admin_token, the token and the file after it
get_or_create_admin_token(file) ==
    IF IsNull(file) THEN [token |-> Str(<<GeneratedToken>>), file |-> TokenFile(GeneratedToken)]
    ELSE [token |-> StoredToken(file), file |-> file]

\* the header strings the web framework reads as a boolean
TrueStrings == {"1", "true", "yes", "on", "t", "y"}
FalseStrings == {"0", "false", "no", "off", "f", "n"}

\* app.py 82, 219: `authenticated: bool = Header(default=None, alias="X-Admin-Token")`,
\* the value the framework passes for the raw header: None when it is absent,
\* a boolean when the string reads as one, a validation error otherwise
BoolHeader(raw) ==
    IF IsNull(raw) THEN Null
    ELSE IF Len(raw.v) = 1 /\ raw.v[1] \in TrueStrings THEN JBool(TRUE)
    ELSE IF Len(raw.v) = 1 /\ raw.v[1] \in FalseStrings THEN JBool(FALSE)
    ELSE Raise

\* app.py 27-41: verify_admin_token, the status it ends with
verify_admin_token(x_admin_token, file) ==
    IF ~Truthy(x_admin_token) THEN 403
    ELSE IF x_admin_token # get_or_create_admin_token(file).token THEN 403
    ELSE 200

\* the token file after a call of an endpoint that verifies the token
FileAfterVerify(raw, file) ==
    IF IsRaise(BoolHeader(raw)) \/ ~Truthy(BoolHeader(raw)) THEN file
    ELSE get_or_create_admin_token(file).file

\* the status of an endpoint that verifies the token: 422 when the framework
\* rejects the header value
GuardedStatus(raw, file) ==
    IF IsRaise(BoolHeader(raw)) THEN 422 ELSE verify_admin_token(BoolHeader(raw), file)

\* db.py 320-336: register_device, an upsert by _id
register_device(devices, device_id, name) ==
    {d \in devices : d._id # device_id} \cup {[_id |-> device_id, name |-> name]}

\* events handed to insert_event: the proxy's timestamp, one at an offset,
\* one that is no ISO string, a naive datetime, and none
ApiTimestamps ==
    {Str(<<"10:00:00", ".123456", "+00:00">>), Str(<<"12:00:00", "+02:00">>),
     Str(<<"yesterday">>), Datetime("10:00:00", ".123000", NoneName)}

ApiEvents ==
    {[t |-> "dict", provider |-> Str(<<"anthropic">>), input_tokens |-> Num(12), timestamp |-> timestamp] :
        timestamp \in ApiTimestamps}
    \cup {[t |-> "dict", provider |-> Str(<<"openai">>), input_tokens |-> Num(4)]}

\* event ids asked for: those the driver gives out, one it has not given out,
\* and strings that are no ObjectId
ApiEventIds ==
    {Str(<<ObjectIdHex[n]>>) : n \in 1..(MaxInserts + 1)} \cup {Str(<<"not-an-id">>), Str(<<>>)}

\* X-Admin-Token headers: absent, the stored token, a wrong one, and a
\* string that reads as a boolean
ApiTokens == {Null, Str(<<"s3cr3tT0ken">>), Str(<<"guess">>), Str(<<"true">>)}

ApiDeviceIds == {"laptop-1"}
ApiNames == {Str(<<>>), Str(<<"office">>)}

InitApi ==
    /\ catalog = KnownOnlyCatalog
    /\ DEBUG_MODE = FALSE
    /\ flows = <<>>
    /\ flow_data = EmptyDict
    /\ store = <<>>
    /\ db = NewStore
    /\ hook = <<>>
    /\ reloads = 0
    /\ world \in {[traffic |-> {}, disk |-> {}, faults |-> StoreFaults, repeats |-> FALSE, admin_token_file |-> file] :
                     file \in {Null, TokenFile("s3cr3tT0ken")}}
    /\ probe = NoProbe

\* what the destructive endpoints act on
Kept(events, dbs) == [events |-> events, devices |-> dbs.devices]

\* MongoEventStore.insert_event(e)
ApiInsertEvent(e, fault) ==
    /\ Len(db.calls) < MaxInserts
    /\ store' = insert_event(store, db, [flow |-> 0, event |-> e], fault).events
    /\ db' = insert_event(store, db, [flow |-> 0, event |-> e], fault).db
    /\ probe' = [fn |-> "insert_event"]
    /\ UNCHANGED <<catalog, DEBUG_MODE, flows, flow_data, hook, reloads, world>>

\* MongoEventStore.get_event(event_id)
ApiGetEvent(event_id) ==
    /\ probe' = [fn |-> "get_event", event_id |-> event_id, out |-> get_event(store, event_id)]
    /\ UNCHANGED <<catalog, DEBUG_MODE, flows, flow_data, store, db, hook, reloads, world>>

\* app.py 196-212: POST /api/devices/{device_id}/rename
ApiRenameDevice(device_id, name) ==
    /\ db' = IF Len(name.v) = 0 THEN db ELSE [db EXCEPT !.devices = register_device(@, device_id, name)]
    /\ probe' = [fn |-> "rename_device", status |-> IF Len(name.v) = 0 THEN 400 ELSE 200]
    /\ UNCHANGED <<catalog, DEBUG_MODE, flows, flow_data, store, hook, reloads, world>>

\* app.py 81-86: DELETE /api/events/all with the raw X-Admin-Token header
ApiDeleteAllEvents(raw) ==
    /\ store' = IF GuardedStatus(raw, world.admin_token_file) = 200 THEN <<>> ELSE store
    /\ world' = [world EXCEPT !.admin_token_file = FileAfterVerify(raw, @)]
    /\ probe' = [fn |-> "delete_all_events", header |-> raw, file |-> world.admin_token_file,
                 status |-> GuardedStatus(raw, world.admin_token_file),
                 before |-> Kept(store, db),
                 after |-> Kept(IF GuardedStatus(raw, world.admin_token_file) = 200 THEN <<>> ELSE store, db)]
    /\ UNCHANGED <<catalog, DEBUG_MODE, flows, flow_data, db, hook, reloads>>

\* db.py 183-190: MongoEventStore.delete_all_events()
StoreDeleteAllEvents ==
    /\ store' = <<>>
    /\ probe' = [fn |-> "delete_many", deleted_count |-> Len(store)]
    /\ UNCHANGED <<catalog, DEBUG_MODE, flows, flow_data, db, hook, reloads, world>>

\* db.py 437-439: delete_device
delete_device(devices, device_id) == {d \in devices : d._id # device_id}

\* app.py 218-227: DELETE /api/devices/{device_id} with the raw X-Admin-Token header
ApiDeleteDevice(device_id, raw) ==
    /\ db' = IF GuardedStatus(raw, world.admin_token_file) = 200
             THEN [db EXCEPT !.devices = delete_device(@, device_id)] ELSE db
    /\ world' = [world EXCEPT !.admin_token_file = FileAfterVerify(raw, @)]
    /\ probe' = [fn |-> "delete_device", header |-> raw, file |-> world.admin_token_file,
                 status |-> GuardedStatus(raw, world.admin_token_file),
                 before |-> Kept(store, db),
                 after |-> Kept(store, IF GuardedStatus(raw, world.admin_token_file) = 200
                                       THEN [db EXCEPT !.devices = delete_device(@, device_id)] ELSE db)]
    /\ UNCHANGED <<catalog, DEBUG_MODE, flows, flow_data, store, hook, reloads>>

NextApi ==
    \/ \E e \in ApiEvents, fault \in world.faults : ApiInsertEvent(e, fault)
    \/ \E event_id \in ApiEventIds : ApiGetEvent(event_id)
    \/ \E device_id \in ApiDeviceIds, name \in ApiNames : ApiRenameDevice(device_id, name)
    \/ \E raw \in ApiTokens : ApiDeleteAllEvents(raw)
    \/ StoreDeleteAllEvents
    \/ \E device_id \in ApiDeviceIds, raw \in ApiTokens : ApiDeleteDevice(device_id, raw)

SpecApi == InitApi /\ [][NextApi]_vars

\* the instant a timestamp denotes, as far as the database keeps it: the UTC
\* time to the millisecond, whether the timestamp is an ISO string or a datetime
InstantOf(timestamp) ==
    IF IsStr(timestamp)
    THEN [time |-> UtcTime(fromisoformat(timestamp).time, fromisoformat(timestamp).tzinfo),
          fraction |-> Millis(fromisoformat(timestamp).fraction)]
    ELSE [time |-> UtcTime(timestamp.time, timestamp.tzinfo), fraction |-> Millis(timestamp.fraction)]

\* the fields of a returned document equal those of the event
SameFields(doc, event) ==
    /\ ~IsNull(doc)
    /\ DOMAIN doc \ {"_id"} = DOMAIN event \ {"_id"}
    /\ \A k \in DOMAIN event \ {"_id", "timestamp"} : doc[k] = event[k]
    /\ "timestamp" \in DOMAIN event => InstantOf(doc.timestamp) = InstantOf(event.timestamp)

GetEventDone == probe.fn = "get_event"

DestructiveDone == probe.fn \in {"delete_all_events", "delete_device"}

\* the request carries the stored per-install token
TokenMatches(raw, file) == ~IsNull(raw) /\ ~IsNull(file) /\ raw = StoredToken(file)

\* C16: a delete-all-events or delete-device call changes the events or the
\* devices only if its X-Admin-Token header equals the stored token; a call
\* with no header or another token is answered 403 and changes nothing.
C16_DestructiveCallsNeedToken ==
    DestructiveDone =>
        /\ probe.after # probe.before => TokenMatches(probe.header, probe.file)
        /\ ~TokenMatches(probe.header, probe.file) => (probe.status = 403 /\ probe.after = probe.before)

-----------------------------------------------------------------------------
(* _parse_sse_response on streams of several frames *)

MaxFrames == 3

\* a frame carrying usage counters (a number, or JSON null) under an event type
UsageFrame(type, input, output) ==
    Obj([type |-> Str(<<type>>), usage |-> Obj([input_tokens |-> input, output_tokens |-> output])])

\* the lines of a stream: data frames with counters under either event type,
\* one of another type, one with no type, one that is no object, the done
\* marker, a data line that is no JSON, and a line that is no data line
SseFrames ==
    {[kind |-> "data", doc |-> doc] :
        doc \in {UsageFrame("message_start", Num(9), Null), UsageFrame("message_start", Num(3), Num(8)),
                 UsageFrame("message_delta", Null, Num(4)), UsageFrame("message_delta", Num(7), Num(2)),
                 Obj([type |-> Str(<<"ping">>)]),
                 Obj([usage |-> Obj([input_tokens |-> Num(5), output_tokens |-> Num(6)])]),
                 Num(5)}}
    \cup {[kind |-> "done"], [kind |-> "broken"], [kind |-> "comment"]}

\* the bytes of one line of the stream
SseBytes(frame) ==
    IF frame.kind = "data" THEN <<DataPrefix, J(frame.doc), NL>>
    ELSE IF frame.kind = "done" THEN <<DataPrefix, Sym("[DONE]"), NL>>
    ELSE IF frame.kind = "broken" THEN <<DataPrefix, Sym("{"), Sym("oops"), NL>>
    ELSE <<Sym("event: ping"), NL>>

\* the stream as the tap collected it: one chunk per line, or one chunk in all
ChunkPerLine(frames) == [i \in 1..Len(frames) |-> SseBytes(frames[i])]
OneChunk(frames) == <<Flatten(ChunkPerLine(frames))>>

\* sse sections: counters filtered by event type, and counters taken from
\* every event (the input counter by "*", the output counter by no filter)
SseByEvent ==
    ProviderResponseSseConfig(
        [done_marker |-> Str(<<"[DONE]">>),
         input_tokens_event |-> Str(<<"message_start">>), input_tokens_path |-> JPath(<<"usage", "input_tokens">>),
         output_tokens_event |-> Str(<<"message_delta">>), output_tokens_path |-> JPath(<<"usage", "output_tokens">>)])
SseAnyEvent ==
    ProviderResponseSseConfig(
        [input_tokens_event |-> Str(<<"*">>), input_tokens_path |-> JPath(<<"usage", "input_tokens">>),
         output_tokens_path |-> JPath(<<"usage", "output_tokens">>)])

FrameSeqs == UNION {[1..n -> SseFrames] : n \in 1..MaxFrames}

InitSse ==
    /\ IdleProxy
    /\ catalog = KnownOnlyCatalog
    /\ probe \in {[fn |-> "parse_sse_response", frames |-> frames, sse_config |-> sse_config,
                   one_chunk |-> one_chunk, done |-> FALSE, out |-> Null] :
                     frames \in FrameSeqs, sse_config \in {SseByEvent, SseAnyEvent}, one_chunk \in BOOLEAN}

SseCall ==
    /\ probe.fn = "parse_sse_response"
    /\ ~probe.done
    /\ probe' = [probe EXCEPT !.done = TRUE,
                              !.out = parse_sse_response(IF probe.one_chunk THEN OneChunk(probe.frames)
                                                         ELSE ChunkPerLine(probe.frames),
                                                         probe.sse_config)]
    /\ UNCHANGED <<catalog, proxyVars>>

SpecSse == InitSse /\ [][SseCall]_vars

SseDone == probe.fn = "parse_sse_response" /\ probe.done

\* the frame is a JSON object that passes the event filter
PassesFilter(frame, expected_event) ==
    /\ frame.kind = "data" /\ IsObj(frame.doc)
    /\ \/ IsNull(expected_event) \/ expected_event = Str(<<"*">>)
       \/ ("type" \in DOMAIN frame.doc.v /\ frame.doc.v.type = expected_event)

\* the frames of the stream that pass the filter and have a non-null value at the path
Yielding(frames, expected_event, path) ==
    {i \in 1..Len(frames) :
        /\ PassesFilter(frames[i], expected_event)
        /\ ~IsRaise(ValueAt(frames[i].doc, path.v))
        /\ ~IsNull(ValueAt(frames[i].doc, path.v))}

\* the value at the path in the last of them, 0 when there is none
LastYielded(frames, expected_event, path) ==
    IF Yielding(frames, expected_event, path) = {} THEN Num(0)
    ELSE ValueAt(frames[CHOOSE i \in Yielding(frames, expected_event, path) :
                            \A j \in Yielding(frames, expected_event, path) : j <= i].doc, path.v)

-----------------------------------------------------------------------------
(* The fields of the event that come from the usage record and the request  *)
(* body                                                                      *)

AmazonEventStream == <<"application/vnd.amazon.eventstream">>

Body(fields) == <<J(Obj(fields))>>

\* flows whose response carries a model or not, as JSON and as a stream;
\* whose request body has budget_tokens, messages, both or neither, for a
\* listed provider and for the fallback; and with an AWS event-stream answer
UsageTraffic ==
    {Flow(HostAnthropic, <<"/v1/messages">>, NoHeaders, Chat("claude-3", Hello), ClientIp, 200, Json,
          <<Body([model |-> Str(<<"claude-3-20240229">>), usage |-> Obj([input_tokens |-> Num(12), output_tokens |-> Num(5)])])>>),
     Flow(HostAnthropic, <<"/v1/messages">>, NoHeaders, Chat("claude-3", Hello), ClientIp, 200, Json,
          <<Body([usage |-> Obj([input_tokens |-> Num(12), output_tokens |-> Num(5)])])>>),
     Flow(HostAnthropic, <<"/v1/messages">>, NoHeaders, Chat("claude-3", Hello), ClientIp, 200, EventStream,
          <<Frame(Obj([type |-> Str(<<"message_start">>), message |-> Obj([model |-> Str(<<"claude-3-20240229">>), usage |-> Obj([input_tokens |-> Num(9)])])]))>>),
     Flow(HostAnthropic, <<"/v1/messages">>, NoHeaders, Chat("claude-3", Hello), ClientIp, 200, EventStream,
          <<Frame(Obj([type |-> Str(<<"message_start">>), message |-> Obj([usage |-> Obj([input_tokens |-> Num(9)])])]))>>),
     Flow(HostExample, <<"/v1/complete">>, NoHeaders,
          Body([model |-> Str(<<"m">>), messages |-> Arr(Hello), budget_tokens |-> Num(1000)]), ClientIp, 200, Json, <<OpenAIUsage(Num(1), Num(1))>>),
     Flow(HostExample, <<"/v1/complete">>, NoHeaders, Chat("m", Hello), ClientIp, 200, Json, <<OpenAIUsage(Num(1), Num(1))>>),
     Flow(HostAnthropic, <<"/v1/messages">>, NoHeaders,
          Body([model |-> Str(<<"claude-3">>), thinking |-> Obj([budget_tokens |-> Num(0)])]), ClientIp, 200, Json, <<AnthropicUsage(Num(2), Num(1))>>),
     Flow(HostAnthropic, <<"/v1/messages">>, NoHeaders,
          Body([model |-> Str(<<"claude-3">>), messages |-> Arr(<<>>)]), ClientIp, 200, Json, <<AnthropicUsage(Num(2), Num(1))>>),
     Flow(HostAnthropic, <<"/v1/messages">>, NoHeaders, Broken, ClientIp, 200, Json, <<AnthropicUsage(Num(2), Num(1))>>),
     Flow(HostKiro, <<"/">>, NoHeaders, Chat("kiro", Hello), ClientIp, 200, AmazonEventStream,
          <<<<Sym(":event-type"), Sym("assistantResponseEvent")>>>>),
     Flow(HostAnthropic, <<"/v1/messages">>, NoHeaders, Chat("claude-3", Hello), ClientIp, 200, AmazonEventStream,
          <<Frame(Obj([type |-> Str(<<"message_start">>), message |-> Obj([usage |-> Obj([input_tokens |-> Num(9)])])]))>>)}

InitUsage ==
    /\ Started({CaptureAllCatalog}, UsageTraffic, {CaptureAllCatalog})
    /\ DEBUG_MODE = FALSE

SpecUsage == InitUsage /\ [][Next]_vars

\* the request body the client sent, decoded
SentBody(f) == json_loads(flows[f].seen.sent.content)

\* the documents of the answer the upstream sent: the body, or the frames
SentDocuments(f) ==
    IF flows[f].seen.sent.content_type = Json
    THEN {json_loads(Flatten(flows[f].seen.sent.chunks))}
    ELSE {json_loads(SubSeq(flows[f].seen.sent.chunks[k], 2, 2)) : k \in 1..Len(flows[f].seen.sent.chunks)}

\* the models the answer names, at $.model or $.message.model
SentModels(f) ==
    {d.v.model : d \in {d \in SentDocuments(f) : IsObj(d) /\ "model" \in DOMAIN d.v}}
    \cup {d.v.message.v.model :
            d \in {d \in SentDocuments(f) : IsObj(d) /\ "message" \in DOMAIN d.v /\ "model" \in DOMAIN d.v.message.v}}

\* the answer is an AWS event-stream
EventStreamFlow(f) == flows[f].seen.sent.content_type = AmazonEventStream

\* C22: the model of an event is the model the response names when it names
\* one, and otherwise the model of the request (for answers that are JSON or
\* a server-sent stream).
C22_ModelFromResponseElseRequest ==
    \A i \in 1..Len(store) :
        ~EventStreamFlow(store[i].flow) =>
            /\ SentModels(store[i].flow) # {} => store[i].event.model \in SentModels(store[i].flow)
            /\ (SentModels(store[i].flow) = {} /\ IsObj(SentBody(store[i].flow)) /\ "model" \in DOMAIN SentBody(store[i].flow).v)
                  => store[i].event.model = SentBody(store[i].flow).v.model

\* the request body has a truthy budget_tokens, directly or under thinking
TruthyBudget(body) ==
    \/ ("budget_tokens" \in DOMAIN body.v /\ Truthy(body.v.budget_tokens))
    \/ /\ "thinking" \in DOMAIN body.v /\ IsObj(body.v.thinking)
       /\ "budget_tokens" \in DOMAIN body.v.thinking.v /\ Truthy(body.v.thinking.v.budget_tokens)

\* C23: is_token_consuming of an event is true exactly when its provider is
\* not "unknown" and the request body has a truthy budget_tokens (directly or
\* under thinking) or one of the keys messages, prompt, contents; it is
\* false when the request body is no JSON.
C23_TokenConsumingIffKnownAndPrompting ==
    \A i \in 1..Len(store) :
        store[i].event.is_token_consuming =
            JBool(/\ store[i].event.provider # "unknown"
                  /\ IsObj(SentBody(store[i].flow))
                  /\ \/ TruthyBudget(SentBody(store[i].flow))
                     \/ DOMAIN SentBody(store[i].flow).v \cap {"messages", "prompt", "contents"} # {})

\* C26: the event of a flow answered with an AWS event-stream has the four
\* token counters 0 and the model the provider's default, whatever the
\* provider and the payload.
C26_EventStreamGivesZeroUsage ==
    \A i \in 1..Len(store) :
        EventStreamFlow(store[i].flow) =>
            /\ ZeroUsage(store[i].event)
            /\ store[i].event.model = Str(<<store[i].event.provider>>)

-----------------------------------------------------------------------------
(* Descriptors without pricing *)

\* the descriptor the request hook found for the flow has no rate for input
\* tokens or none for output tokens
Unpriced(f) ==
    \/ IsNull(ProviderAt(flows[f].seen.catalog, flows[f].seen.provider_name).metadata.cost_per_input_token)
    \/ IsNull(ProviderAt(flows[f].seen.catalog, flows[f].seen.provider_name).metadata.cost_per_output_token)

\* C28: for a matched, non-telemetry flow whose descriptor omits a rate the
\* response hook still stores the event, with an estimated_cost computed
\* with the missing rate as 0.
C28_UnpricedDescriptorStillRecorded ==
    \A f \in FlowIds :
        (/\ ResponseHookRan(f) /\ MatchedFlow(f)
         /\ ~TelemetryHeader(f) /\ ~TelemetryPath(f) /\ ~HealthFlow(f)
         /\ WellFormedBodies(f) /\ IsObj(json_loads(flows[f].seen.sent.content))
         /\ Unpriced(f))
            => /\ Cardinality(EventsOf(f)) = 1
               /\ \A i \in EventsOf(f) : IsNum(store[i].event.estimated_cost)

-----------------------------------------------------------------------------
(* Requests addressed to the proxy itself *)

\* the flow was sent to the loopback host with a path of a recognized provider
DirectFlow(f) ==
    /\ flows[f].seen.sent.host \in Loopback /\ ~HealthFlow(f)
    /\ detect_provider_from_path(flows[f].seen.sent.path) # NoneName

\* the flow was sent to the loopback host with any other path but /health
StrayFlow(f) ==
    /\ flows[f].seen.sent.host \in Loopback /\ ~HealthFlow(f)
    /\ detect_provider_from_path(flows[f].seen.sent.path) = NoneName

\* the name under which the catalog lists the host, NoneName if it does not
LookedUp(cat, host) ==
    IF IsNull(get_provider_by_domain(cat, host)) THEN NoneName
    ELSE get_provider_by_domain(cat, host).provider_name

\* C25: a request to the loopback host with a recognized path goes upstream
\* to the provider's host over https, port 443, and the provider of its flow
\* record is the one the catalog lists for that upstream host; a loopback
\* request with another path (but /health) is answered 400 and has no record.
C25_LoopbackRewrittenBeforeLookup ==
    \A f \in FlowIds :
        /\ DirectFlow(f) =>
              /\ flows[f].request.host \notin Loopback
              /\ flows[f].request.port = 443 /\ flows[f].request.scheme = "https"
              /\ flows[f].seen.provider_name = LookedUp(flows[f].seen.catalog, flows[f].request.host)
              /\ f \in DOMAIN flow_data =>
                    flow_data[f].provider_name = LookedUp(flows[f].seen.catalog, flows[f].request.host)
        /\ StrayFlow(f) =>
              /\ f \notin DOMAIN flow_data
              /\ "status_code" \in DOMAIN flows[f].response /\ flows[f].response.status_code = 400

C25_Witness ==
    \E f, g \in FlowIds :
        /\ DirectFlow(f) /\ f \in DOMAIN flow_data /\ flow_data[f].provider_name = "openai"
        /\ flows[f].request.host = <<"api", "openai", "com">>
        /\ StrayFlow(g) /\ flows[g].response.status_code = 400

-----------------------------------------------------------------------------
(* The program of an event *)

\* neither X-Tokentap-Program nor X-Tokentap-Context came with the request
NoProgramSupplied(f) ==
    DOMAIN flows[f].seen.sent.headers \cap {"x-tokentap-program", "x-tokentap-context"} = {}

\* C27: when neither the X-Tokentap-Program header nor the X-Tokentap-Context
\* JSON supplies a program, the program of the event is its client_type.
C27_ProgramDefaultsToClientType ==
    \A i \in 1..Len(store) :
        NoProgramSupplied(store[i].flow) =>
            /\ store[i].event.program = store[i].event.client_type
            /\ store[i].event.context.v.program_name = store[i].event.client_type

-----------------------------------------------------------------------------
(* The taps of streamed answers, with the hooks of several flows interleaved *)

\* a stream with an empty chunk in it, a JSON answer to a request with
\* stream = true, an AWS event-stream, a plain JSON answer, and a stream from
\* a host no descriptor lists
TapTraffic ==
    {Flow(HostAnthropic, <<"/v1/messages">>, NoHeaders, Chat("claude-3", Hello), ClientIp, 200, EventStream,
          <<Frame(Obj([type |-> Str(<<"message_start">>), message |-> Obj([usage |-> Obj([input_tokens |-> Num(9)])])])),
            <<>>,
            Frame(Obj([type |-> Str(<<"message_delta">>), usage |-> Obj([output_tokens |-> Num(5)])]))>>),
     Flow(HostOpenAI, <<"/v1/chat/completions">>, NoHeaders,
          Body([model |-> Str(<<"gpt-4">>), messages |-> Arr(Hello), stream |-> JBool(TRUE)]), ClientIp, 200, Json,
          <<OpenAIUsage(Num(4), Num(2)), <<>>>>),
     Flow(HostKiro, <<"/">>, NoHeaders, Chat("kiro", Hello), ClientIp, 200, AmazonEventStream,
          <<<<Sym(":event-type")>>, <<Sym("assistantResponseEvent")>>>>),
     Flow(HostAnthropic, <<"/v1/messages">>, NoHeaders, Chat("claude-3", Hello), ClientIp, 200, Json, <<AnthropicUsage(Num(12), Num(5))>>),
     Flow(HostExample, <<"/v1/complete">>, NoHeaders, Chat("m", Hello), ClientIp, 200, EventStream,
          <<Frame(Obj([usage |-> Obj([prompt_tokens |-> Num(1)])]))>>)}

InitTap ==
    /\ Started({KnownOnlyCatalog}, TapTraffic, {KnownOnlyCatalog})
    /\ DEBUG_MODE = FALSE

SpecTap == InitTap /\ [][Next]_vars

\* the chunks of a sequence that are not empty, in order
NonEmptyChunks(chunks) == SelectSeq(chunks, LAMBDA c : Len(c) > 0)

\* responseheaders marked the flow streaming (and its record is still there)
MarkedStreaming(f) == f \in DOMAIN flow_data /\ flow_data[f].is_streaming

\* C24: what the tap of a streaming flow has passed on, followed by what is
\* still to come, is the body the upstream sent, chunk for chunk; the chunks
\* of the flow's record are the non-empty chunks passed on for that flow, in
\* order, whichever other flows' hooks and taps ran in between; and a flow
\* not marked streaming has no chunks.
C24_ChunksAreTheFlowsOwn ==
    \A f \in DOMAIN flow_data :
        /\ MarkedStreaming(f) =>
              /\ flows[f].forwarded \o flows[f].wire = flows[f].upstream.chunks
              /\ flow_data[f].chunks = NonEmptyChunks(flows[f].forwarded)
        /\ ~MarkedStreaming(f) => flow_data[f].chunks = <<>> /\ flows[f].forwarded = <<>>

C24_Witness ==
    \E f, g \in DOMAIN flow_data :
        /\ MarkedStreaming(f) /\ MarkedStreaming(g)
        /\ flow_data[f].chunks # <<>> /\ flow_data[g].chunks # <<>>
        /\ \A k \in 1..Len(flow_data[f].chunks) : \A l \in 1..Len(flow_data[g].chunks) :
              flow_data[f].chunks[k] # flow_data[g].chunks[l]
        /\ Len(flows[f].forwarded) > Len(flow_data[f].chunks)
        /\ hook[f] = "stream" /\ hook[g] = "stream"

-----------------------------------------------------------------------------
(* insert_event calls in flight together: the awaits of ensure_indexes *)

\* response hooks awaiting insert_event at the same time
MaxTasks == 2

\* db.py 31-43: the create_index calls of ensure_indexes, each one awaited
IndexCount == 11

Tasks == 1..MaxTasks

InitIndexes ==
    /\ IdleProxy
    /\ catalog = KnownOnlyCatalog
    /\ probe = [fn |-> "insert_event",
                pc |-> [t \in Tasks |-> "idle"],
                index |-> [t \in Tasks |-> 0],
                issued |-> [k \in 1..IndexCount |-> 0],
                creators |-> 0,
                inserted |-> <<>>]

\* db.py 48, 29-31: insert_event awaits ensure_indexes, which returns at once
\* when _indexes_created is set and otherwise issues the first create_index
\* and is suspended until the database answers
InsertEventStarts(t) ==
    /\ probe.fn = "insert_event"
    /\ probe.pc[t] = "idle"
    /\ probe' = IF db._indexes_created
                THEN [probe EXCEPT !.pc[t] = "insert_one"]
                ELSE [probe EXCEPT !.pc[t] = "create_index", !.index[t] = 1,
                                   !.issued[1] = @ + 1, !.creators = @ + 1]
    /\ UNCHANGED <<catalog, proxyVars>>

\* db.py 31-44: the database answered a create_index; ensure_indexes issues
\* the next one, or sets _indexes_created after the last and returns to
\* insert_event, which issues insert_one (db.py 52)
CreateIndexReturns(t) ==
    /\ probe.fn = "insert_event"
    /\ probe.pc[t] = "create_index"
    /\ IF probe.index[t] < IndexCount
       THEN /\ probe' = [probe EXCEPT !.index[t] = @ + 1, !.issued[probe.index[t] + 1] = @ + 1]
            /\ db' = db
       ELSE /\ probe' = [probe EXCEPT !.pc[t] = "insert_one"]
            /\ db' = [db EXCEPT !._indexes_created = TRUE]
    /\ UNCHANGED <<catalog, DEBUG_MODE, flows, flow_data, store, hook, reloads, world>>

\* db.py 52: the database answered insert_one
InsertOneReturns(t) ==
    /\ probe.fn = "insert_event"
    /\ probe.pc[t] = "insert_one"
    /\ probe' = [probe EXCEPT !.pc[t] = "done", !.inserted = Append(@, t)]
    /\ UNCHANGED <<catalog, proxyVars>>

NextIndexes ==
    \/ \E t \in Tasks : InsertEventStarts(t)
    \/ \E t \in Tasks : CreateIndexReturns(t)
    \/ \E t \in Tasks : InsertOneReturns(t)

SpecIndexes == InitIndexes /\ [][NextIndexes]_vars

\* C29: on a fresh store the indexes are created once, however many
\* insert_event calls are in flight: only one call ever starts creating
\* them, and each create_index is issued at most once.
C29_IndexesCreatedOnce ==
    probe.fn = "insert_event" =>
        /\ probe.creators <= 1
        /\ \A k \in 1..IndexCount : probe.issued[k] <= 1

-----------------------------------------------------------------------------
(* ProviderConfig.reload when loading fails *)

MaxCalls == 4

\* the ProviderConfig object: __init__ and reload set the first three
\* together; _jsonpath_cache holds the paths compiled so far
ProviderConfigOf(config, cache) ==
    [config |-> config, providers |-> config.providers, capture_mode |-> config.capture_mode,
     _jsonpath_cache |-> cache]

\* what _load_config may find: the base file unreadable, or a merged
\* document, which ProvidersConfig(**default) validates
ReloadFiles ==
    {[readable |-> TRUE, merged |-> KnownOnlyCatalog],
     [readable |-> TRUE, merged |-> CaptureAllCatalog],
     [readable |-> TRUE, merged |-> TrimmedCatalog],
     [readable |-> FALSE, merged |-> CaptureAllCatalog],
     [readable |-> TRUE, merged |-> ProvidersConfig("everything", <<Entry("gemini", GeminiProvider)>>)]}

\* provider_config.py 105-111: the validator of capture_mode
validate_capture_mode(v) == IF v \in {"known_only", "capture_all"} THEN v ELSE "<raise>"

\* provider_config.py 125-149: the validated configuration, or raised
\* when the base file cannot be read or the validation fails
load_config(file) ==
    [raised |-> ~file.readable \/ validate_capture_mode(file.merged.capture_mode) = "<raise>",
     config |-> file.merged]

\* a reload that takes the providers of the document before validating it
reload_ProvidersBeforeValidation(self, file) ==
    IF ~file.readable THEN [raised |-> TRUE, self |-> self]
    ELSE IF load_config(file).raised
    THEN [raised |-> TRUE, self |-> [self EXCEPT !.providers = file.merged.providers]]
    ELSE [raised |-> FALSE, self |-> ProviderConfigOf(load_config(file).config, {})]

\* provider_config.py 254-261: the object after reload(), and whether the
\* call raised; the four assignments follow _load_config
reload(self, file) ==
    IF load_config(file).raised THEN [raised |-> TRUE, self |-> self]
    ELSE [raised |-> FALSE, self |-> ProviderConfigOf(load_config(file).config, {})]

CompiledPaths == {JPath(<<"model">>), JPath(<<"usage", "input_tokens">>)}

InitReload ==
    /\ IdleProxy
    /\ catalog = KnownOnlyCatalog
    /\ \E config \in {KnownOnlyCatalog, CaptureAllCatalog} :
          probe = [fn |-> "reload", self |-> ProviderConfigOf(config, {}), calls |-> 0,
                   last |-> [raised |-> FALSE, before |-> ProviderConfigOf(config, {})]]

\* reload_provider_config() on the loaded instance
ReloadCall ==
    /\ probe.fn = "reload"
    /\ probe.calls < MaxCalls
    /\ \E file \in ReloadFiles :
          probe' = [probe EXCEPT !.self = reload(probe.self, file).self,
                                 !.calls = @ + 1,
                                 !.last = [raised |-> reload(probe.self, file).raised, before |-> probe.self]]
    /\ UNCHANGED <<catalog, proxyVars>>

\* provider_config.py 205-211: extract_field compiles a path it has not seen
ExtractFieldCall ==
    /\ probe.fn = "reload"
    /\ probe.calls < MaxCalls
    /\ \E jsonpath \in CompiledPaths \ probe.self._jsonpath_cache :
          probe' = [probe EXCEPT !.self._jsonpath_cache = @ \cup {jsonpath},
                                 !.calls = @ + 1,
                                 !.last = [raised |-> FALSE, before |-> probe.self]]
    /\ UNCHANGED <<catalog, proxyVars>>

NextReload == ReloadCall \/ ExtractFieldCall

SpecReload == InitReload /\ [][NextReload]_vars

\* the last call was a reload that raised
ReloadFailed == probe.fn = "reload" /\ probe.last.raised

\* C30: after a reload that failed the providers, the capture_mode and the
\* cache of compiled paths are those from before the call, all of them, and
\* every host is looked up as before.
C30_FailedReloadKeepsConfiguration ==
    ReloadFailed =>
        /\ probe.self.providers = probe.last.before.providers
        /\ probe.self.capture_mode = probe.last.before.capture_mode
        /\ probe.self.config = probe.last.before.config
        /\ probe.self._jsonpath_cache = probe.last.before._jsonpath_cache
        /\ probe.self.providers = probe.self.config.providers
        /\ probe.self.capture_mode = probe.self.config.capture_mode
        /\ \A host \in LookupHosts :
              get_provider_by_domain(ProvidersConfig(probe.self.capture_mode, probe.self.providers), host)
                  = get_provider_by_domain(probe.last.before.config, host)

C30_Witness ==
    /\ ReloadFailed
    /\ probe.calls = MaxCalls
    /\ probe.self.config = CaptureAllCatalog
    /\ probe.self._jsonpath_cache # {}

=============================================================================
